---- MODULE Spec2Model ----
(***************************************************************************)
(* Check orchestration core of urlchecker: the circuit breaker, the retry  *)
(* policy and Search.Check, the exporter state and the group aggregator.   *)
(* Time is a discrete clock `now`; a duration is a number of clock units.  *)
(***************************************************************************)
EXTENDS Integers, Sequences, FiniteSets, TLC

\* ------------------------------------------------------------------ bounds
MaxTime == 3        \* the clock stops advancing here
MaxThreshold == 3   \* breaker thresholds are 1..MaxThreshold
MaxTimeout == 2     \* breaker timeouts are 0..MaxTimeout clock units
MaxFailures == 4    \* no further failure is injected once a breaker counts this many
MaxRetry == 1       \* concurrent Checks run with retryCount 0..MaxRetry
MaxCheckThreshold == 2  \* and with circuit thresholds 1..MaxCheckThreshold
MaxCheckFailures == 2   \* no Check starts once a breaker counts this many failures
MaxRetryCount == 3  \* Checks without exporter state run with retryCount 0..MaxRetryCount
MaxTargets == 3     \* calculateGroupHealth is given at most this many targets
MaxUpdates == 3     \* UpdateState is called at most this many times
MaxRegistryTimeout == 1  \* GetOrCreateCircuitBreaker is given timeouts 0..MaxRegistryTimeout
MaxTicks == 1       \* ticker.C takes at most this many ticks
MaxDropped == 1     \* the ticker finds ticker.C full at most this many times
MaxCallers == 3     \* goroutines calling RecordFailure on one breaker
MaxJobs == 4        \* AddJob is called at most this many times on a pool used directly
MaxChecks == 2      \* no Check starts once an observed label counts this many checks
MaxLines == 3       \* a target file has at most this many lines
MaxChanged == 2     \* a drawn Config differs from a known one in at most this many fields
MaxDuration == 127  \* the largest time.Duration (2^63 - 1 ns in the program), in delay units
MaxRetryDelay == 20 \* the backoff is computed for retry delays 1..MaxRetryDelay

VARIABLES
    now,              \* time.Now()
    circuitBreakers,  \* ExporterState.circuitBreakers: key -> CircuitBreaker
    ret,              \* what the last direct call on a breaker returned
    hist,             \* the calls made on the breaker since NewCircuitBreaker
    search,           \* the Search's settings (fixed after New)
    exporterState,    \* the exporterState argument of Check: "nil" or "es"
    SearchResult,     \* search.SearchResult, shared by every Check on the Search
    ck,               \* per goroutine: the frame of its Check call
    heap,             \* the URLState objects allocated so far, by address
    states,           \* ExporterState.states: key -> address of its *URLState
    result,           \* the map GetAllStates returned, <<>> before the call
    esMu,             \* ExporterState.mu: "free", or the goroutine holding it
    us,               \* per goroutine: the frame of its UpdateState call
    calls,            \* per key: the UpdateState calls made for it
    urlsWithGroups,   \* calculateGroupHealth's arguments ...
    checkResults,
    groupName,
    groupStatus,      \* ... and what it returned, <<>> before the call
    cbMade,           \* the CircuitBreakers the ExporterState has allocated so far
    cbAt,             \* key -> address of the *CircuitBreaker es.circuitBreakers holds
    gc,               \* per goroutine: the frame of its GetOrCreateCircuitBreaker call
    workers,          \* WorkerPool.workers
    jobQueue,         \* WorkerPool.jobQueue, a channel of capacity workers*2
    stopChan,         \* WorkerPool.stopChan: "open" or "closed"
    wg,               \* WorkerPool.wg's counter
    wk,               \* per goroutine: the frame of the worker it runs
    aj,               \* the AddJob call in progress: <<>> or <<job>>
    stop,             \* the Stop call: "none", "wait" (in wg.Wait) or "returned"
    added,            \* the AddJob calls made so far
    taken,            \* per key: the jobs workers have received from the queue
    main,             \* the frame of main in exporter mode
    tickerC,          \* ticker.C, a channel of capacity 1: the ticks it holds
    sigChan,          \* sigChan, a channel of capacity 1: the signals it holds
    ticks,            \* the times the ticker has fired
    run,              \* the frame of runHealthChecks
    runWg,            \* the counter of the WaitGroup runHealthChecks is given
    gr,               \* per goroutine: the frame of the func runHealthChecks started in it
    urlResults,       \* runHealthChecks's urlResults map
    TotalChecksCounter,   \* metrics.TotalChecksCounter: label -> checks recorded
    FailedChecksCounter,  \* metrics.FailedChecksCounter: label -> failed checks recorded
    args,             \* the arguments of a function called on its own, <<>> if none is
    returned,         \* <<v>> once that call has returned v, <<>> before
    cbMu,             \* CircuitBreaker.mu of the one breaker: 0 if free, or the caller holding it
    rf,               \* per goroutine: the frame of its RecordFailure call
    CircuitBreakerTransitionsCounter,  \* metrics: transition -> times recorded, <<>> if not followed
    oldState,         \* per goroutine: Check's oldState, <<>> if transitions are not followed
    opened,           \* the times a breaker went from Closed to Open, if transitions are followed
    tm                \* per goroutine: the times of its Check, <<>> if they are not followed

checkVars == <<search, exporterState, SearchResult, ck>>

stateVars == <<heap, states, result, esMu, us, calls>>

groupVars == <<urlsWithGroups, checkResults, groupName, groupStatus>>

registryVars == <<cbMade, cbAt, gc>>

poolVars == <<workers, jobQueue, stopChan, wg, wk, aj, stop, added, taken>>

mainVars == <<main, tickerC, sigChan, ticks>>

runVars == <<run, runWg, gr, urlResults>>
metricVars == <<TotalChecksCounter, FailedChecksCounter>>
callVars == <<args, returned>>
lockVars == <<cbMu, rf>>
transVars == <<CircuitBreakerTransitionsCounter, oldState, opened>>
timeVars == <<tm>>

vars == <<now, circuitBreakers, ret, hist, checkVars, stateVars, groupVars, registryVars,
          poolVars, mainVars, runVars, metricVars,
          callVars,
          lockVars,
          transVars,
          timeVars>>

\* ------------------------------------------------------------ circuit breaker
CircuitClosed == "closed"
CircuitHalfOpen == "half-open"
CircuitOpen == "open"
CircuitBreakerState == {CircuitClosed, CircuitHalfOpen, CircuitOpen}

\* the zero time.Time a new breaker's lastFailure holds; the clock starts after it
ZeroTime == 0

Thresholds == 1..MaxThreshold
Timeouts == 0..MaxTimeout

NewCircuitBreaker(threshold, timeout) ==
    [threshold |-> threshold, timeout |-> timeout, failureCount |-> 0,
     lastFailure |-> ZeroTime, state |-> CircuitClosed]

\* time.Since(cb.lastFailure) >= cb.timeout; since the zero time it always is
TimeoutElapsed(cb) ==
    \/ cb.lastFailure = ZeroTime
    \/ now - cb.lastFailure >= cb.timeout

\* mutant: IsOpen lets an Open breaker through whatever the time
IsOpen_IgnoresTimeout(cb) ==
    IF cb.state = CircuitOpen
    THEN [cb |-> [cb EXCEPT !.state = CircuitHalfOpen], val |-> FALSE]
    ELSE [cb |-> cb, val |-> FALSE]

\* IsOpen: the breaker after the call, and the value returned
IsOpen(cb) ==
    CASE cb.state = CircuitOpen ->
            IF TimeoutElapsed(cb)
            THEN [cb |-> [cb EXCEPT !.state = CircuitHalfOpen], val |-> FALSE]
            ELSE [cb |-> cb, val |-> TRUE]
      [] cb.state = CircuitHalfOpen -> [cb |-> cb, val |-> FALSE]
      [] cb.state = CircuitClosed -> [cb |-> cb, val |-> FALSE]
      [] OTHER -> [cb |-> cb, val |-> FALSE]

\* mutant: RecordSuccess closes the breaker and keeps the count
RecordSuccess_KeepsCount(cb) ==
    [cb EXCEPT !.state = CircuitClosed]

RecordSuccess(cb) ==
    [cb EXCEPT !.failureCount = 0, !.state = CircuitClosed]

\* mutant: the threshold test is > for >=
RecordFailure_StrictThreshold(cb) ==
    LET counted == [cb EXCEPT !.failureCount = @ + 1, !.lastFailure = now]
    IN  IF cb.state = CircuitHalfOpen
        THEN [counted EXCEPT !.state = CircuitOpen]
        ELSE IF cb.state = CircuitClosed /\ counted.failureCount > cb.threshold
             THEN [counted EXCEPT !.state = CircuitOpen]
             ELSE counted

\* mutant: a failure recorded on an Open breaker leaves lastFailure as it was
RecordFailure_KeepsOpenTime(cb) ==
    LET counted == [cb EXCEPT !.failureCount = @ + 1,
                              !.lastFailure = IF cb.state = CircuitOpen THEN @ ELSE now]
    IN  IF cb.state = CircuitHalfOpen
        THEN [counted EXCEPT !.state = CircuitOpen]
        ELSE IF cb.state = CircuitClosed /\ counted.failureCount >= cb.threshold
             THEN [counted EXCEPT !.state = CircuitOpen]
             ELSE counted

\* mutant: the time of the failure is not recorded
RecordFailure_NoTimestamp(cb) ==
    LET counted == [cb EXCEPT !.failureCount = @ + 1]
    IN  IF cb.state = CircuitHalfOpen
        THEN [counted EXCEPT !.state = CircuitOpen]
        ELSE IF cb.state = CircuitClosed /\ counted.failureCount >= cb.threshold
             THEN [counted EXCEPT !.state = CircuitOpen]
             ELSE counted

\* mutant: the HalfOpen branch is missing
RecordFailure_NoHalfOpenBranch(cb) ==
    LET counted == [cb EXCEPT !.failureCount = @ + 1, !.lastFailure = now]
    IN  IF cb.state = CircuitClosed /\ counted.failureCount >= cb.threshold
        THEN [counted EXCEPT !.state = CircuitOpen]
        ELSE counted

RecordFailure(cb) ==
    LET counted == [cb EXCEPT !.failureCount = @ + 1, !.lastFailure = now]
    IN  IF cb.state = CircuitHalfOpen
        THEN [counted EXCEPT !.state = CircuitOpen]
        ELSE IF cb.state = CircuitClosed /\ counted.failureCount >= cb.threshold
             THEN [counted EXCEPT !.state = CircuitOpen]
             ELSE counted

\* mutant: GetState is a pure read
GetState_Pure(cb) == [cb |-> cb, val |-> cb.state]

\* GetState: the breaker after the call, and the state returned
GetState(cb) ==
    LET after == IF cb.state = CircuitOpen /\ TimeoutElapsed(cb)
                 THEN [cb EXCEPT !.state = CircuitHalfOpen]
                 ELSE cb
    IN  [cb |-> after, val |-> after.state]

GetFailureCount(cb) == cb.failureCount

GetLastFailure(cb) == cb.lastFailure

\* ------------------------------------------------------------------ the clock
Tick ==
    /\ now < MaxTime
    /\ now' = now + 1
    /\ UNCHANGED <<circuitBreakers, ret, hist, checkVars, stateVars, groupVars, registryVars, poolVars, mainVars, runVars, metricVars, callVars, lockVars, transVars, timeVars>>

\* ------------------------------------------------------- parts not in use
\* a new ExporterState nobody calls UpdateState on
NoUpdates ==
    /\ heap = <<>>
    /\ states = <<>>
    /\ result = <<>>
    /\ esMu = "free"
    /\ us = <<>>
    /\ calls = <<>>

\* no label is under observation: the counters of the metrics package are not followed
NoMetrics ==
    /\ TotalChecksCounter = <<>>
    /\ FailedChecksCounter = <<>>

\* no function is called on its own
NoFunction ==
    /\ args = <<>>
    /\ returned = <<>>

\* the transitions Check reports to the metrics package are not followed
NoTransitions ==
    /\ CircuitBreakerTransitionsCounter = <<>>
    /\ oldState = <<>>
    /\ opened = 0
    /\ tm = <<>>

\* the times of a Check (Check's startTime, the start of its first dial, the
\* return of its last one) and its local responseTime
NewTimes == [startTime |-> ZeroTime, first |-> ZeroTime, last |-> ZeroTime, responseTime |-> 0]

\* a frame for every goroutine when the times of Checks are followed
Timed(p, t) == IF tm # <<>> THEN [tm EXCEPT ![p] = t] ELSE tm

\* no goroutine calls a breaker's method step by step
NoCallers ==
    /\ cbMu = 0
    /\ rf = <<>>

\* runHealthChecks is not running
NoRun ==
    /\ run = <<>>
    /\ runWg = 0
    /\ gr = <<>>
    /\ urlResults = <<>>

\* no worker pool and no exporter loop; no runHealthChecks either
NoPool ==
    /\ workers = 0
    /\ jobQueue = <<>>
    /\ stopChan = "open"
    /\ wg = 0
    /\ wk = <<>>
    /\ aj = <<>>
    /\ stop = "none"
    /\ added = 0
    /\ taken = <<>>
    /\ main = <<>>
    /\ tickerC = 0
    /\ sigChan = 0
    /\ ticks = 0
    /\ NoRun

\* a new ExporterState: no breaker allocated, nobody in GetOrCreateCircuitBreaker;
\* no worker pool either
NoRegistry ==
    /\ cbMade = 0
    /\ cbAt = <<>>
    /\ gc = <<>>
    /\ NoPool
    /\ NoMetrics
    /\ NoFunction
    /\ NoTransitions
    /\ NoCallers

\* no group health is computed
NoGroups ==
    /\ urlsWithGroups = <<>>
    /\ checkResults = <<>>
    /\ groupName = ""
    /\ groupStatus = <<>>

\* ------------------------------------------- observations of direct calls
\* what a call returned: a bool (IsOpen), a state (GetState) or a number
Returned(op, bool, state, num) ==
    [op |-> op, bool |-> bool, state |-> state, num |-> num]

NoCall == Returned("none", FALSE, "none", 0)

\* the calls since NewCircuitBreaker: the RecordFailure calls while no
\* RecordSuccess was made, the last call and the state it found, and the
\* Record calls that found the breaker HalfOpen
NewHist ==
    [failures |-> 0, onlyFailures |-> TRUE, last |-> "NewCircuitBreaker",
     from |-> CircuitClosed, halfOpenExits |-> {}]

\* --------------------------------------------------------------- Search.Check
Procs == {"g1", "g2"}

\* A url is held as its ":"-separated fields, <<"a", "443">> for "a:443";
\* strings.Split(url, ":") yields the fields and Join writes the string.
URLs == {<<"a">>, <<"a", "443">>}

Split(url) == url

Join(fields) ==
    IF Len(fields) = 1 THEN fields[1] ELSE fields[1] \o ":" \o fields[2]

\* fmt.Sprintf("%s:%s", url, protocol)
Key(url, protocol) == url \o ":" \o protocol

\* net.DialTimeout's error: nil, or the error value the n-th dial of a Check
\* returned, a different one for every dial
nil == <<>>
DialError(n) == <<n>>

NoSearch ==
    [RetryCount |-> 0, CircuitThreshold |-> 1, CircuitTimeout |-> 0,
     Port |-> "80", Protocol |-> "tcp"]

NewSearchResult == [Address |-> "", Port |-> "", State |-> ""]

NewFrame ==
    [pc |-> "idle", addr |-> "", circuitBreaker |-> "nil", gate |-> "none",
     attempt |-> 0, lastErr |-> nil, err |-> nil,
     \* observed: the dials and sleeps made, the dials that failed, the last dial's result
     dials |-> 0, sleeps |-> 0, fails |-> 0, lastDial |-> nil]

Init ==
    /\ now = 1
    /\ circuitBreakers = <<>>
    /\ ret = NoCall
    /\ hist = NewHist
    /\ \E r \in 0..MaxRetry, threshold \in 1..MaxCheckThreshold, timeout \in Timeouts :
          search = [NoSearch EXCEPT !.RetryCount = r,
                                    !.CircuitThreshold = threshold,
                                    !.CircuitTimeout = timeout]
    /\ exporterState = "es"
    /\ SearchResult = NewSearchResult
    /\ ck = [p \in Procs |-> NewFrame]
    /\ NoUpdates
    /\ NoGroups
    /\ NoRegistry

\* es.circuitBreakers[key] = cb: the map and the addresses with cb stored at key
Stored(key, cb) ==
    [circuitBreakers |-> [k \in DOMAIN circuitBreakers \cup {key} |->
                             IF k = key THEN cb ELSE circuitBreakers[k]],
     cbAt |-> [k \in DOMAIN cbAt \cup {key} |-> IF k = key THEN cbMade + 1 ELSE cbAt[k]],
     cbMade |-> cbMade + 1,
     cb |-> cbMade + 1]

\* mutant: a new breaker is made and stored whether or not the key has one
GetOrCreateCircuitBreaker_AlwaysNew(url, protocol, threshold, timeout) ==
    Stored(Key(url, protocol), NewCircuitBreaker(threshold, timeout))

\* GetOrCreateCircuitBreaker, the body under es.mu: the map, the addresses and
\* the allocation count after the call, and the address returned
GetOrCreateCircuitBreaker(url, protocol, threshold, timeout) ==
    LET key == Key(url, protocol)
    IN  IF key \in DOMAIN circuitBreakers
        THEN [circuitBreakers |-> circuitBreakers, cbAt |-> cbAt, cbMade |-> cbMade,
              cb |-> cbAt[key]]
        ELSE Stored(key, NewCircuitBreaker(threshold, timeout))

\* Check's first lines: the url is split and the shared SearchResult written
Entered(url) ==
    LET fields == Split(url)
    IN  IF Len(fields) # 1
        THEN [SearchResult EXCEPT !.Address = fields[1], !.Port = fields[2]]
        ELSE [SearchResult EXCEPT !.Address = Join(url), !.Port = search.Port]

\* the transitions reported are followed
Followed == CircuitBreakerTransitionsCounter # <<>>

\* counter.WithLabelValues(label).Inc(), followed for the labels under observation
Inc(counter, label) ==
    IF label \in DOMAIN counter THEN [counter EXCEPT ![label] = @ + 1] ELSE counter

\* metrics.RecordCheck(url, protocol, success, responseTime): its two counters
RecordCheck(url, success) ==
    /\ TotalChecksCounter' = Inc(TotalChecksCounter, url)
    /\ FailedChecksCounter' = IF ~success THEN Inc(FailedChecksCounter, url)
                                          ELSE FailedChecksCounter

\* Check is entered
CheckStart(p, url) ==
    /\ ck[p].pc = "idle"
    /\ \A l \in DOMAIN TotalChecksCounter : TotalChecksCounter[l] < MaxChecks
    /\ \A k \in DOMAIN circuitBreakers : circuitBreakers[k].failureCount < MaxCheckFailures
    /\ SearchResult' = Entered(url)
    /\ ck' = [ck EXCEPT ![p] = [NewFrame EXCEPT !.pc = "addr"]]
    /\ tm' = Timed(p, [NewTimes EXCEPT !.startTime = now])
    /\ UNCHANGED <<now, circuitBreakers, ret, hist, search,
                   exporterState, stateVars, groupVars, registryVars, poolVars, mainVars, runVars, metricVars, callVars, lockVars, transVars>>

\* addr := search.SearchResult.Address + ":" + search.SearchResult.Port
\* what Check does between the gate and the dial: without retries responseTime
\* is taken, time.Since(startTime), and the dial follows; with retries
\* retryWithExponentialBackoff is entered and takes its own startTime
BeforeDial(t) ==
    [t EXCEPT !.first = now,
              !.responseTime = IF search.RetryCount > 0 THEN @ ELSE now - t.startTime]

\* a dial has returned; if retryWithExponentialBackoff returns with it, it
\* returns time.Since(startTime) of its own startTime
AfterLastDial(t, returns) ==
    [t EXCEPT !.last = now,
              !.responseTime = IF search.RetryCount > 0 /\ returns
                               THEN now - t.first ELSE @]

CheckAddr(p) ==
    /\ ck[p].pc = "addr"
    /\ ck' = [ck EXCEPT ![p].addr = SearchResult.Address \o ":" \o SearchResult.Port,
                        ![p].pc = IF exporterState # "nil" THEN "breaker" ELSE "dial"]
    /\ tm' = IF exporterState # "nil" THEN tm ELSE Timed(p, BeforeDial(tm[p]))
    /\ UNCHANGED <<now, circuitBreakers, ret, hist, search,
                   exporterState, SearchResult, stateVars, groupVars, registryVars, poolVars, mainVars, runVars, metricVars, callVars, lockVars, transVars>>

CheckGetBreaker(p) ==
    /\ ck[p].pc = "breaker"
    /\ LET r == GetOrCreateCircuitBreaker(SearchResult.Address, search.Protocol,
                                          search.CircuitThreshold, search.CircuitTimeout)
       IN  /\ circuitBreakers' = r.circuitBreakers
           /\ cbAt' = r.cbAt
           /\ cbMade' = r.cbMade
    /\ ck' = [ck EXCEPT ![p].circuitBreaker = Key(SearchResult.Address, search.Protocol),
                        ![p].pc = "isopen"]
    /\ UNCHANGED <<now, ret, hist, search, exporterState, SearchResult, stateVars,
                   groupVars, gc, poolVars, mainVars, runVars, metricVars, callVars, lockVars, transVars, timeVars>>

\* if circuitBreaker.IsOpen()
CheckIsOpen(p) ==
    /\ ck[p].pc = "isopen"
    /\ LET r == IsOpen(circuitBreakers[ck[p].circuitBreaker])
       IN  /\ circuitBreakers' = [circuitBreakers EXCEPT ![ck[p].circuitBreaker] = r.cb]
           /\ ck' = [ck EXCEPT ![p].gate = r.cb.state,
                               ![p].pc = IF r.val THEN "rejected" ELSE "dial"]
    /\ tm' = IF ck'[p].pc = "dial" THEN Timed(p, BeforeDial(tm[p])) ELSE tm
    /\ UNCHANGED <<now, ret, hist, search, exporterState, SearchResult, stateVars, groupVars, registryVars, poolVars, mainVars, runVars, metricVars, callVars, lockVars, transVars>>

\* the circuit is open: no dial, the state "CircuitOpen" is returned
CheckRejected(p) ==
    /\ ck[p].pc = "rejected"
    /\ SearchResult' = [SearchResult EXCEPT !.State = "CircuitOpen"]
    /\ RecordCheck(ck[p].addr, FALSE)
    /\ ck' = [ck EXCEPT ![p] = NewFrame]
    /\ UNCHANGED <<now, circuitBreakers, ret, hist, search,
                   exporterState, stateVars, groupVars, registryVars, poolVars, mainVars, runVars, callVars, lockVars, transVars, timeVars>>

AfterDial == IF exporterState # "nil" THEN "oldstate" ELSE "finish"

\* one iteration of retryWithExponentialBackoff's loop up to its sleep: the value
\* of the frame after a dial that returned e
Dialed(f, e) ==
    [f EXCEPT !.dials = @ + 1, !.lastDial = e,
              !.fails = IF e = nil THEN @ ELSE @ + 1]

\* mutant: the loop sleeps after its last attempt too and dials once more
RetryDial_ExtraAttempt(f, e) ==
    IF e = nil
    THEN [Dialed(f, e) EXCEPT !.err = nil, !.pc = AfterDial]
    ELSE IF f.attempt <= search.RetryCount
         THEN [Dialed(f, e) EXCEPT !.lastErr = e, !.pc = "sleep"]
         ELSE [Dialed(f, e) EXCEPT !.lastErr = e, !.attempt = @ + 1,
                                   !.err = e, !.pc = AfterDial]

\* mutant: a successful dial does not return while attempts remain
RetryDial_NoEarlyReturn(f, e) ==
    IF f.attempt < search.RetryCount
    THEN [Dialed(f, e) EXCEPT !.lastErr = e, !.pc = "sleep"]
    ELSE [Dialed(f, e) EXCEPT !.lastErr = e, !.attempt = @ + 1,
                              !.err = e, !.pc = AfterDial]

RetryDial(f, e) ==
    IF e = nil
    THEN [Dialed(f, e) EXCEPT !.err = nil, !.pc = AfterDial]
    ELSE IF f.attempt < search.RetryCount
         THEN [Dialed(f, e) EXCEPT !.lastErr = e, !.pc = "sleep"]
         ELSE [Dialed(f, e) EXCEPT !.lastErr = e, !.attempt = @ + 1,
                                   !.err = e, !.pc = AfterDial]

\* the single dial of a Check without retries
SingleDial(f, e) ==
    [Dialed(f, e) EXCEPT !.err = e, !.pc = AfterDial]

\* net.DialTimeout returns e
CheckDial(p) ==
    /\ ck[p].pc = "dial"
    /\ \E e \in {nil, DialError(ck[p].dials + 1)} :
          ck' = [ck EXCEPT ![p] = IF search.RetryCount > 0
                                  THEN RetryDial(ck[p], e)
                                  ELSE SingleDial(ck[p], e)]
    /\ tm' = Timed(p, AfterLastDial(tm[p], ck'[p].pc # "sleep"))
    /\ UNCHANGED <<now, circuitBreakers, ret, hist, search,
                   exporterState, SearchResult, stateVars, groupVars, registryVars, poolVars, mainVars, runVars, metricVars, callVars, lockVars, transVars>>

\* time.Sleep(delay), then the loop's attempt++
RetrySleep(f) ==
    [f EXCEPT !.sleeps = @ + 1, !.attempt = @ + 1, !.pc = "dial"]

CheckSleep(p) ==
    /\ ck[p].pc = "sleep"
    /\ ck' = [ck EXCEPT ![p] = RetrySleep(ck[p])]
    /\ UNCHANGED <<now, circuitBreakers, ret, hist, search,
                   exporterState, SearchResult, stateVars, groupVars, registryVars, poolVars, mainVars, runVars, metricVars, callVars, lockVars, transVars, timeVars>>

\* oldState := circuitBreaker.GetState()
CheckOldState(p) ==
    /\ ck[p].pc = "oldstate"
    /\ LET r == GetState(circuitBreakers[ck[p].circuitBreaker])
       IN  /\ circuitBreakers' = [circuitBreakers EXCEPT ![ck[p].circuitBreaker] = r.cb]
           /\ ck' = [ck EXCEPT ![p].pc = "record"]
           /\ oldState' = IF Followed THEN [oldState EXCEPT ![p] = r.val] ELSE oldState
    /\ UNCHANGED <<now, ret, hist, search, exporterState, SearchResult, stateVars, groupVars,
                   registryVars, poolVars, mainVars, runVars, metricVars, callVars, lockVars,
                   CircuitBreakerTransitionsCounter, opened, timeVars>>

\* mutant: a failure is recorded for every dial that failed
CheckRecord_PerDial(p) ==
    /\ ck[p].pc = "record"
    /\ circuitBreakers' =
          [circuitBreakers EXCEPT ![ck[p].circuitBreaker] =
              IF ck[p].err # nil
              THEN IF ck[p].fails > 1 THEN RecordFailure(RecordFailure(@))
                   ELSE RecordFailure(@)
              ELSE RecordSuccess(@)]
    /\ ck' = [ck EXCEPT ![p].pc = "newstate"]
    /\ UNCHANGED <<now, ret, hist, search, exporterState, SearchResult, stateVars, groupVars,
                   registryVars, poolVars, mainVars, runVars, metricVars, callVars, lockVars, transVars, timeVars>>

\* circuitBreaker.RecordFailure() or RecordSuccess()
CheckRecord(p) ==
    /\ ck[p].pc = "record"
    /\ circuitBreakers' =
          [circuitBreakers EXCEPT ![ck[p].circuitBreaker] =
              IF ck[p].err # nil THEN RecordFailure(@) ELSE RecordSuccess(@)]
    /\ ck' = [ck EXCEPT ![p].pc = "newstate"]
    /\ opened' = IF /\ Followed
                    /\ circuitBreakers[ck[p].circuitBreaker].state = CircuitClosed
                    /\ circuitBreakers'[ck[p].circuitBreaker].state = CircuitOpen
                 THEN opened + 1 ELSE opened
    /\ UNCHANGED <<now, ret, hist, search, exporterState, SearchResult, stateVars, groupVars,
                   registryVars, poolVars, mainVars, runVars, metricVars, callVars, lockVars,
                   CircuitBreakerTransitionsCounter, oldState, timeVars>>

\* fmt.Sprintf("%s_to_%s", oldState.String(), newState.String())
Transition(old, new) == old \o "_to_" \o new

\* if oldState != newState: metrics.RecordCircuitBreakerTransition(..., transition)
Reported(old, new) ==
    IF old # new
    THEN Inc(CircuitBreakerTransitionsCounter, Transition(old, new))
    ELSE CircuitBreakerTransitionsCounter

\* newState := circuitBreaker.GetState(), and the report of the transition
\* from oldState to it
CheckNewState(p) ==
    /\ ck[p].pc = "newstate"
    /\ LET r == GetState(circuitBreakers[ck[p].circuitBreaker])
       IN  /\ circuitBreakers' = [circuitBreakers EXCEPT ![ck[p].circuitBreaker] = r.cb]
           /\ ck' = [ck EXCEPT ![p].pc = "finish"]
           /\ CircuitBreakerTransitionsCounter' =
                 IF Followed THEN Reported(oldState[p], r.val)
                 ELSE CircuitBreakerTransitionsCounter
    /\ UNCHANGED <<now, ret, hist, search, exporterState, SearchResult, stateVars, groupVars,
                   registryVars, poolVars, mainVars, runVars, metricVars, callVars, lockVars,
                   oldState, opened, timeVars>>

\* search.SearchResult.State is set and Check returns
CheckFinish(p) ==
    /\ ck[p].pc = "finish"
    /\ LET state == IF ck[p].err # nil THEN "Failed" ELSE "Success"
       IN  /\ SearchResult' = [SearchResult EXCEPT !.State = state]
           /\ RecordCheck(ck[p].addr, ck[p].err = nil)
           /\ ck' = [ck EXCEPT ![p] = NewFrame]
    /\ UNCHANGED <<now, circuitBreakers, ret, hist, search,
                   exporterState, stateVars, groupVars, registryVars, poolVars, mainVars, runVars, callVars, lockVars, transVars, timeVars>>

Next ==
    \/ Tick
    \/ \E p \in Procs :
          \/ \E url \in URLs : CheckStart(p, url)
          \/ CheckAddr(p)
          \/ CheckGetBreaker(p)
          \/ CheckIsOpen(p)
          \/ CheckRejected(p)
          \/ CheckDial(p)
          \/ CheckSleep(p)
          \/ CheckOldState(p)
          \/ CheckRecord(p)
          \/ CheckNewState(p)
          \/ CheckFinish(p)

Spec == Init /\ [][Next]_vars

\* Checks without exporter state (runHealthChecks passes nil): no breaker
InitRetry ==
    /\ now = 1
    /\ circuitBreakers = <<>>
    /\ ret = NoCall
    /\ hist = NewHist
    /\ \E r \in 0..MaxRetryCount : search = [NoSearch EXCEPT !.RetryCount = r]
    /\ exporterState = "nil"
    /\ SearchResult = NewSearchResult
    /\ ck = [p \in Procs |-> NewFrame]
    /\ NoUpdates
    /\ NoGroups
    /\ NoRegistry

NextRetry ==
    \E p \in Procs :
       \/ \E url \in URLs : CheckStart(p, url)
       \/ CheckAddr(p)
       \/ CheckDial(p)
       \/ CheckSleep(p)
       \/ CheckFinish(p)

SpecRetry == InitRetry /\ [][NextRetry]_vars

\* Checks without exporter state while the clock advances, their times followed
InitElapsed ==
    /\ now = 1
    /\ circuitBreakers = <<>>
    /\ ret = NoCall
    /\ hist = NewHist
    /\ \E r \in 0..MaxRetry : search = [NoSearch EXCEPT !.RetryCount = r]
    /\ exporterState = "nil"
    /\ SearchResult = NewSearchResult
    /\ ck = [p \in Procs |-> NewFrame]
    /\ NoUpdates
    /\ NoGroups
    /\ cbMade = 0
    /\ cbAt = <<>>
    /\ gc = <<>>
    /\ NoPool
    /\ NoMetrics
    /\ args = <<>>
    /\ returned = <<>>
    /\ NoCallers
    /\ CircuitBreakerTransitionsCounter = <<>>
    /\ oldState = <<>>
    /\ opened = 0
    /\ tm = [p \in Procs |-> NewTimes]

SpecElapsed == InitElapsed /\ [][Tick \/ NextRetry]_vars

\* Checks with exporter state whose metrics are followed: the counters of the
\* labels Check can record under, all 0 as the process starts
Labels == {"a:80", "a:443"}

InitMetrics ==
    /\ now = 1
    /\ circuitBreakers = <<>>
    /\ ret = NoCall
    /\ hist = NewHist
    /\ \E r \in 0..MaxRetry :
          search = [NoSearch EXCEPT !.RetryCount = r, !.CircuitTimeout = MaxTimeout]
    /\ exporterState = "es"
    /\ SearchResult = NewSearchResult
    /\ ck = [p \in Procs |-> NewFrame]
    /\ NoUpdates
    /\ NoGroups
    /\ cbMade = 0
    /\ cbAt = <<>>
    /\ gc = <<>>
    /\ NoPool
    /\ TotalChecksCounter = [l \in Labels |-> 0]
    /\ FailedChecksCounter = [l \in Labels |-> 0]
    /\ NoFunction
    /\ NoTransitions
    /\ NoCallers

SpecMetrics == InitMetrics /\ [][Next]_vars

\* concurrent Checks on the breaker of "a", the transitions they report followed
Transitions == {Transition(a, b) : a, b \in CircuitBreakerState}

InitTransitions ==
    /\ now = 1
    /\ circuitBreakers = <<>>
    /\ ret = NoCall
    /\ hist = NewHist
    /\ \E r \in 0..MaxRetry, threshold \in 1..MaxCheckThreshold :
          search = [NoSearch EXCEPT !.RetryCount = r, !.CircuitThreshold = threshold,
                                    !.CircuitTimeout = MaxTimeout]
    /\ exporterState = "es"
    /\ SearchResult = NewSearchResult
    /\ ck = [p \in Procs |-> NewFrame]
    /\ NoUpdates
    /\ NoGroups
    /\ cbMade = 0
    /\ cbAt = <<>>
    /\ gc = <<>>
    /\ NoPool
    /\ TotalChecksCounter = [l \in Labels |-> 0]
    /\ FailedChecksCounter = [l \in Labels |-> 0]
    /\ args = <<>>
    /\ returned = <<>>
    /\ NoCallers
    /\ CircuitBreakerTransitionsCounter = [t \in Transitions |-> 0]
    /\ oldState = [p \in Procs |-> CircuitClosed]
    /\ opened = 0
    /\ tm = <<>>

SpecTransitions == InitTransitions /\ [][Next]_vars

\* ---------------------------------------------------------- group aggregator
GroupURLs == {"a.test", "b.test"}
Groups == {"", "g1", "g2"}

URLWithGroup == [URL : GroupURLs, Group : Groups]

\* calculateGroupHealth's loop over the first i targets: the URLs of the group
\* collected so far and the two counters
RECURSIVE GroupScan(_, _, _, _)
GroupScan(name, targets, results, i) ==
    IF i = 0
    THEN [groupURLs |-> <<>>, healthyCount |-> 0, totalCount |-> 0]
    ELSE LET acc == GroupScan(name, targets, results, i - 1)
             t == targets[i]
         IN  IF t.Group = name
             THEN [groupURLs |-> Append(acc.groupURLs, t.URL),
                   healthyCount |->
                       IF t.URL \in DOMAIN results /\ results[t.URL]
                       THEN acc.healthyCount + 1 ELSE acc.healthyCount,
                   totalCount |-> acc.totalCount + 1]
             ELSE acc

\* mutant: the totalCount > 0 test is missing
calculateGroupHealth_EmptyHealthy(name, targets, results) ==
    LET acc == GroupScan(name, targets, results, Len(targets))
    IN  [GroupName |-> name,
         IsHealthy |-> acc.healthyCount = acc.totalCount,
         TotalURLs |-> acc.totalCount,
         HealthyURLs |-> acc.healthyCount,
         UnhealthyURLs |-> acc.totalCount - acc.healthyCount,
         URLs |-> acc.groupURLs]

calculateGroupHealth(name, targets, results) ==
    LET acc == GroupScan(name, targets, results, Len(targets))
        isHealthy == acc.totalCount > 0 /\ acc.healthyCount = acc.totalCount
    IN  [GroupName |-> name,
         IsHealthy |-> isHealthy,
         TotalURLs |-> acc.totalCount,
         HealthyURLs |-> acc.healthyCount,
         UnhealthyURLs |-> acc.totalCount - acc.healthyCount,
         URLs |-> acc.groupURLs]

InitGroup ==
    /\ now = 1
    /\ circuitBreakers = <<>>
    /\ ret = NoCall
    /\ hist = NewHist
    /\ search = NoSearch
    /\ exporterState = "nil"
    /\ SearchResult = NewSearchResult
    /\ ck = [p \in Procs |-> NewFrame]
    /\ NoUpdates
    /\ \E n \in 0..MaxTargets : urlsWithGroups \in [1..n -> URLWithGroup]
    /\ \E checked \in SUBSET GroupURLs : checkResults \in [checked -> BOOLEAN]
    /\ groupName \in Groups
    /\ groupStatus = <<>>
    /\ NoRegistry

CalculateGroupHealth ==
    /\ groupStatus = <<>>
    /\ groupStatus' = <<calculateGroupHealth(groupName, urlsWithGroups, checkResults)>>
    /\ UNCHANGED <<now, circuitBreakers, ret, hist, checkVars, stateVars,
                   urlsWithGroups, checkResults, groupName, registryVars, poolVars, mainVars, runVars, metricVars, callVars, lockVars, transVars, timeVars>>

NextGroup == CalculateGroupHealth

SpecGroup == InitGroup /\ [][NextGroup]_vars

\* ------------------------------------------------------------- exporter state
StateURLs == {"a", "b"}
ResponseTimes == {1, 2}

NoUpdate ==
    [pc |-> "idle", url |-> "", protocol |-> "", isUp |-> FALSE, responseTime |-> 0,
     key |-> "", now |-> ZeroTime, exists |-> FALSE]

InitState ==
    /\ now = 1
    /\ circuitBreakers = <<>>
    /\ ret = NoCall
    /\ hist = NewHist
    /\ search = NoSearch
    /\ exporterState = "es"
    /\ SearchResult = NewSearchResult
    /\ ck = [p \in Procs |-> NewFrame]
    /\ heap = <<>>
    /\ states = <<>>
    /\ result = <<>>
    /\ esMu = "free"
    /\ us = [p \in Procs |-> NoUpdate]
    /\ calls = [k \in {Key(u, NoSearch.Protocol) : u \in StateURLs} |-> 0]
    /\ NoGroups
    /\ NoRegistry

Sum(f) ==
    LET RECURSIVE Add(_)
        Add(D) == IF D = {} THEN 0
                  ELSE LET k == CHOOSE x \in D : TRUE IN f[k] + Add(D \ {k})
    IN  Add(DOMAIN f)

\* UpdateState(url, protocol, isUp, responseTime) is called
UpdateStateCall(p, url, protocol, isUp, responseTime) ==
    /\ us[p].pc = "idle"
    /\ Sum(calls) < MaxUpdates
    /\ us' = [us EXCEPT ![p] = [NoUpdate EXCEPT !.pc = "lock", !.url = url,
                                                !.protocol = protocol, !.isUp = isUp,
                                                !.responseTime = responseTime]]
    /\ calls' = [calls EXCEPT ![Key(url, protocol)] = @ + 1]
    /\ UNCHANGED <<now, circuitBreakers, ret, hist, checkVars, heap, states, result, esMu,
                   groupVars, registryVars, poolVars, mainVars, runVars, metricVars, callVars, lockVars, transVars, timeVars>>

\* mutant: the lock is taken without waiting for it
UpdateStateLock_NoMutex(p) ==
    /\ us[p].pc = "lock"
    /\ esMu' = p
    /\ us' = [us EXCEPT ![p].pc = "lookup"]
    /\ UNCHANGED <<now, circuitBreakers, ret, hist, checkVars, heap, states, result, calls,
                   groupVars, registryVars, poolVars, mainVars, runVars, metricVars, callVars, lockVars, transVars, timeVars>>

\* es.mu.Lock()
UpdateStateLock(p) ==
    /\ us[p].pc = "lock"
    /\ esMu = "free"
    /\ esMu' = p
    /\ us' = [us EXCEPT ![p].pc = "lookup"]
    /\ UNCHANGED <<now, circuitBreakers, ret, hist, checkVars, heap, states, result, calls,
                   groupVars, registryVars, poolVars, mainVars, runVars, metricVars, callVars, lockVars, transVars, timeVars>>

\* key, now and the lookup of es.states[key]
UpdateStateLookup(p) ==
    /\ us[p].pc = "lookup"
    /\ LET key == Key(us[p].url, us[p].protocol)
       IN  us' = [us EXCEPT ![p].key = key, ![p].now = now,
                            ![p].exists = key \in DOMAIN states, ![p].pc = "write"]
    /\ UNCHANGED <<now, circuitBreakers, ret, hist, checkVars, heap, states, result, esMu,
                   calls, groupVars, registryVars, poolVars, mainVars, runVars, metricVars, callVars, lockVars, transVars, timeVars>>

\* mutant: a successful check clears the failure count
Updated_SuccessClearsFailures(state, f) ==
    LET seen == [state EXCEPT !.LastCheck = f.now, !.ResponseTime = f.responseTime,
                              !.IsUp = f.isUp, !.CheckCount = @ + 1]
    IN  IF f.isUp
        THEN [seen EXCEPT !.LastSuccess = f.now, !.FailureCount = 0]
        ELSE [seen EXCEPT !.LastFailure = f.now, !.FailureCount = @ + 1]

\* the branch taken when the key exists: the entry after it
Updated(state, f) ==
    LET seen == [state EXCEPT !.LastCheck = f.now, !.ResponseTime = f.responseTime,
                              !.IsUp = f.isUp, !.CheckCount = @ + 1]
    IN  IF f.isUp
        THEN [seen EXCEPT !.LastSuccess = f.now]
        ELSE [seen EXCEPT !.LastFailure = f.now, !.FailureCount = @ + 1]

\* mutant: the new entry of a failed check counts no failure
Created_NoFailureCount(f) ==
    LET new == [URL |-> f.url, Protocol |-> f.protocol, LastCheck |-> f.now,
                LastSuccess |-> ZeroTime, LastFailure |-> ZeroTime,
                ResponseTime |-> f.responseTime, IsUp |-> f.isUp,
                CheckCount |-> 1, FailureCount |-> 0]
    IN  IF f.isUp
        THEN [new EXCEPT !.LastSuccess = f.now]
        ELSE [new EXCEPT !.LastFailure = f.now]

\* the branch taken when it does not: the new entry
Created(f) ==
    LET new == [URL |-> f.url, Protocol |-> f.protocol, LastCheck |-> f.now,
                LastSuccess |-> ZeroTime, LastFailure |-> ZeroTime,
                ResponseTime |-> f.responseTime, IsUp |-> f.isUp,
                CheckCount |-> 1, FailureCount |-> 0]
    IN  IF f.isUp
        THEN [new EXCEPT !.LastSuccess = f.now]
        ELSE [new EXCEPT !.LastFailure = f.now, !.FailureCount = 1]

\* the entry is changed through its pointer, or a new URLState is allocated and
\* stored under the key
UpdateStateWrite(p) ==
    /\ us[p].pc = "write"
    /\ LET f == us[p]
       IN  IF f.exists
           THEN /\ heap' = [heap EXCEPT ![states[f.key]] = Updated(@, f)]
                /\ states' = states
           ELSE /\ heap' = Append(heap, Created(f))
                /\ states' = [k \in DOMAIN states \cup {f.key} |->
                                 IF k = f.key THEN Len(heap) + 1 ELSE states[k]]
    /\ us' = [us EXCEPT ![p].pc = "unlock"]
    /\ UNCHANGED <<now, circuitBreakers, ret, hist, checkVars, result, esMu, calls,
                   groupVars, registryVars, poolVars, mainVars, runVars, metricVars, callVars, lockVars, transVars, timeVars>>

\* GetAllStates under es.mu.RLock(), which no UpdateState holding es.mu overlaps:
\* a new map with the pointers of es.states
GetAllStates ==
    /\ esMu = "free"
    /\ result' = <<[k \in DOMAIN states |-> states[k]]>>
    /\ UNCHANGED <<now, circuitBreakers, ret, hist, checkVars, heap, states, esMu, us,
                   calls, groupVars, registryVars, poolVars, mainVars, runVars, metricVars, callVars, lockVars, transVars, timeVars>>

\* the deferred es.mu.Unlock(); UpdateState returns
UpdateStateUnlock(p) ==
    /\ us[p].pc = "unlock"
    /\ esMu' = "free"
    /\ us' = [us EXCEPT ![p] = NoUpdate]
    /\ UNCHANGED <<now, circuitBreakers, ret, hist, checkVars, heap, states, result, calls,
                   groupVars, registryVars, poolVars, mainVars, runVars, metricVars, callVars, lockVars, transVars, timeVars>>

NextState ==
    \/ Tick
    \/ \E p \in Procs :
          \/ \E url \in StateURLs, isUp \in BOOLEAN, responseTime \in ResponseTimes :
                UpdateStateCall(p, url, NoSearch.Protocol, isUp, responseTime)
          \/ UpdateStateLock(p)
          \/ UpdateStateLookup(p)
          \/ UpdateStateWrite(p)
          \/ UpdateStateUnlock(p)
    \/ GetAllStates

SpecState == InitState /\ [][NextState]_vars

\* -------------------------------------------- the breakers of an ExporterState
\* Goroutines call GetOrCreateCircuitBreaker and UpdateState on one ExporterState
\* with any arguments, one call at a time each.
NoGet ==
    [pc |-> "idle", url |-> "", protocol |-> "", threshold |-> 0, timeout |-> 0]

InitRegistry ==
    /\ now = 1
    /\ circuitBreakers = <<>>
    /\ ret = NoCall
    /\ hist = NewHist
    /\ search = NoSearch
    /\ exporterState = "es"
    /\ SearchResult = NewSearchResult
    /\ ck = [p \in Procs |-> NewFrame]
    /\ heap = <<>>
    /\ states = <<>>
    /\ result = <<>>
    /\ esMu = "free"
    /\ us = [p \in Procs |-> NoUpdate]
    /\ calls = [k \in {Key(u, NoSearch.Protocol) : u \in StateURLs} |-> 0]
    /\ NoGroups
    /\ cbMade = 0
    /\ cbAt = <<>>
    /\ gc = [p \in Procs |-> NoGet]
    /\ NoPool
    /\ NoMetrics
    /\ NoFunction
    /\ NoTransitions
    /\ NoCallers

\* GetOrCreateCircuitBreaker(url, protocol, threshold, timeout) is called and
\* es.mu.Lock() returns
GetOrCreateLock(p, url, protocol, threshold, timeout) ==
    /\ gc[p].pc = "idle"
    /\ us[p].pc = "idle"
    /\ esMu = "free"
    /\ esMu' = p
    /\ gc' = [gc EXCEPT ![p] = [pc |-> "body", url |-> url, protocol |-> protocol,
                                threshold |-> threshold, timeout |-> timeout]]
    /\ UNCHANGED <<now, circuitBreakers, ret, hist, checkVars, heap, states, result, us,
                   calls, groupVars, cbMade, cbAt, poolVars, mainVars, runVars, metricVars, callVars, lockVars, transVars, timeVars>>

\* the body, the deferred es.mu.Unlock() and the return of the breaker
GetOrCreateReturn(p) ==
    /\ gc[p].pc = "body"
    /\ LET f == gc[p]
           r == GetOrCreateCircuitBreaker(f.url, f.protocol, f.threshold, f.timeout)
       IN  /\ circuitBreakers' = r.circuitBreakers
           /\ cbAt' = r.cbAt
           /\ cbMade' = r.cbMade
           /\ ret' = Returned("GetOrCreateCircuitBreaker", FALSE, "none", r.cb)
    /\ gc' = [gc EXCEPT ![p] = NoGet]
    /\ esMu' = "free"
    /\ UNCHANGED <<now, hist, checkVars, heap, states, result, us, calls, groupVars,
                   poolVars, mainVars, runVars, metricVars, callVars, lockVars, transVars, timeVars>>

NextRegistry ==
    \E p \in Procs :
       \/ \E url \in StateURLs, threshold \in 1..MaxCheckThreshold,
             timeout \in 0..MaxRegistryTimeout :
                GetOrCreateLock(p, url, NoSearch.Protocol, threshold, timeout)
       \/ GetOrCreateReturn(p)
       \/ \E url \in StateURLs :
             /\ gc[p].pc = "idle"
             /\ UpdateStateCall(p, url, NoSearch.Protocol, TRUE, 1)
       \/ UpdateStateLock(p)
       \/ UpdateStateLookup(p)
       \/ UpdateStateWrite(p)
       \/ UpdateStateUnlock(p)

SpecRegistry == InitRegistry /\ [][NextRegistry]_vars

\* ---------------------------------------------------------------- worker pool
\* the i-th goroutine a loop starts is WorkerProcs[i]: go wp.worker(i - 1) in
\* Start, the func of the i-th target in runHealthChecks
WorkerProcs == <<"g1", "g2">>

NoJob == [URL |-> "", Protocol |-> ""]

CheckJob(url) == [URL |-> url, Protocol |-> search.Protocol]

NoWorker == [pc |-> "none", job |-> NoJob, startTime |-> ZeroTime, isUp |-> FALSE]

\* cap(wp.jobQueue)
Capacity == workers * 2

\* AddJob(job) is called; the caller's own frame is the caller's to change
AddJobCall(job) ==
    /\ aj = <<>>
    /\ aj' = <<job>>
    /\ added' = added + 1
    /\ UNCHANGED <<now, circuitBreakers, ret, hist, checkVars, stateVars, groupVars,
                   registryVars, workers, jobQueue, stopChan, wg, wk, stop, taken,
                   tickerC, sigChan, ticks, runVars, metricVars, callVars, lockVars, transVars, timeVars>>

\* mutant: the send does not wait for room in the queue
AddJobSend_NoWait ==
    /\ aj # <<>>
    /\ jobQueue' = Append(jobQueue, aj[1])
    /\ aj' = <<>>
    /\ UNCHANGED <<now, circuitBreakers, ret, hist, checkVars, stateVars, groupVars,
                   registryVars, workers, stopChan, wg, wk, stop, added, taken, mainVars,
                   runVars, metricVars, callVars, lockVars, transVars, timeVars>>

\* AddJob's select, case wp.jobQueue <- job: the queue has room
AddJobSend ==
    /\ aj # <<>>
    /\ Len(jobQueue) < Capacity
    /\ jobQueue' = Append(jobQueue, aj[1])
    /\ aj' = <<>>
    /\ UNCHANGED <<now, circuitBreakers, ret, hist, checkVars, stateVars, groupVars,
                   registryVars, workers, stopChan, wg, wk, stop, added, taken, mainVars, runVars, metricVars, callVars, lockVars, transVars, timeVars>>

\* mutant: AddJob has no stop case
AddJobStopped_Missing ==
    /\ FALSE
    /\ UNCHANGED vars

\* AddJob's select, case <-wp.stopChan: the job is dropped
AddJobStopped ==
    /\ aj # <<>>
    /\ stopChan = "closed"
    /\ aj' = <<>>
    /\ UNCHANGED <<now, circuitBreakers, ret, hist, checkVars, stateVars, groupVars,
                   registryVars, workers, jobQueue, stopChan, wg, wk, stop, added, taken,
                   mainVars, runVars, metricVars, callVars, lockVars, transVars, timeVars>>

\* mutant: the receive leaves the job in the queue
WorkerTake_Peek(p) ==
    /\ wk[p].pc = "select"
    /\ jobQueue # <<>>
    /\ Sum(taken) < MaxJobs
    /\ LET job == Head(jobQueue)
       IN  /\ wk' = [wk EXCEPT ![p] = [NoWorker EXCEPT !.pc = "dial", !.job = job,
                                                     !.startTime = now]]
           /\ taken' = [taken EXCEPT ![Key(job.URL, job.Protocol)] = @ + 1]
    /\ UNCHANGED <<now, circuitBreakers, ret, hist, checkVars, stateVars, groupVars,
                   registryVars, workers, jobQueue, stopChan, wg, aj, stop, added, mainVars,
                   runVars, metricVars, callVars, lockVars, transVars, timeVars>>

\* the worker's select, case job := <-wp.jobQueue; processJob is entered
WorkerTake(p) ==
    /\ wk[p].pc = "select"
    /\ jobQueue # <<>>
    /\ LET job == Head(jobQueue)
       IN  /\ wk' = [wk EXCEPT ![p] = [NoWorker EXCEPT !.pc = "dial", !.job = job,
                                                     !.startTime = now]]
           /\ taken' = [taken EXCEPT ![Key(job.URL, job.Protocol)] = @ + 1]
    /\ jobQueue' = Tail(jobQueue)
    /\ UNCHANGED <<now, circuitBreakers, ret, hist, checkVars, stateVars, groupVars,
                   registryVars, workers, stopChan, wg, aj, stop, added, mainVars, runVars, metricVars, callVars, lockVars, transVars, timeVars>>

\* processJob: net.DialTimeout returns, responseTime and isUp are computed and
\* wp.state.UpdateState is called
ProcessDial(p) ==
    /\ wk[p].pc = "dial"
    /\ \E err \in {nil, DialError(1)} :
          LET job == wk[p].job
          IN  /\ us' = [us EXCEPT ![p] =
                           [NoUpdate EXCEPT !.pc = "lock", !.url = job.URL,
                                            !.protocol = job.Protocol,
                                            !.isUp = (err = nil),
                                            !.responseTime = now - wk[p].startTime]]
              /\ calls' = [calls EXCEPT ![Key(job.URL, job.Protocol)] = @ + 1]
              /\ wk' = [wk EXCEPT ![p].pc = "update", ![p].isUp = (err = nil)]
    /\ UNCHANGED <<now, circuitBreakers, ret, hist, checkVars, heap, states, result, esMu,
                   groupVars, registryVars, workers, jobQueue, stopChan, wg, aj, stop,
                   added, taken, mainVars, runVars, metricVars, callVars, lockVars, transVars, timeVars>>

\* processJob: UpdateState has returned; metrics.RecordCheck for addr (a job's
\* URL carries no port here, so addr is the URL with search.Port),
\* metrics.RecordCheckDuration and the log line, then the worker's loop
ProcessMetrics(p) ==
    /\ wk[p].pc = "update"
    /\ us[p].pc = "idle"
    /\ RecordCheck(wk[p].job.URL \o ":" \o search.Port, wk[p].isUp)
    /\ wk' = [wk EXCEPT ![p] = [NoWorker EXCEPT !.pc = "select"]]
    /\ UNCHANGED <<now, circuitBreakers, ret, hist, checkVars, stateVars, groupVars,
                   registryVars, workers, jobQueue, stopChan, wg, aj, stop, added, taken,
                   mainVars, runVars, callVars, lockVars, transVars, timeVars>>

\* the worker's select, case <-wp.stopChan: return, and the deferred wp.wg.Done()
WorkerStop(p) ==
    /\ wk[p].pc = "select"
    /\ stopChan = "closed"
    /\ wk' = [wk EXCEPT ![p].pc = "exited"]
    /\ wg' = wg - 1
    /\ UNCHANGED <<now, circuitBreakers, ret, hist, checkVars, stateVars, groupVars,
                   registryVars, workers, jobQueue, stopChan, aj, stop, added, taken,
                   mainVars, runVars, metricVars, callVars, lockVars, transVars, timeVars>>

\* Stop: close(wp.stopChan)
StopClose ==
    /\ stop = "none"
    /\ stopChan' = "closed"
    /\ stop' = "wait"
    /\ UNCHANGED <<now, circuitBreakers, ret, hist, checkVars, stateVars, groupVars,
                   registryVars, workers, jobQueue, wg, wk, aj, added, taken, mainVars, runVars, metricVars, callVars, lockVars, transVars, timeVars>>

\* mutant: Stop returns without waiting for the workers
StopWait_NoWait ==
    /\ stop = "wait"
    /\ stop' = "returned"
    /\ UNCHANGED <<now, circuitBreakers, ret, hist, checkVars, stateVars, groupVars,
                   registryVars, workers, jobQueue, stopChan, wg, wk, aj, added, taken,
                   mainVars, runVars, metricVars, callVars, lockVars, transVars, timeVars>>

\* Stop: wp.wg.Wait() returns
StopWait ==
    /\ stop = "wait"
    /\ wg = 0
    /\ stop' = "returned"
    /\ UNCHANGED <<now, circuitBreakers, ret, hist, checkVars, stateVars, groupVars,
                   registryVars, workers, jobQueue, stopChan, wg, wk, aj, added, taken,
                   mainVars, runVars, metricVars, callVars, lockVars, transVars, timeVars>>

\* what a worker goroutine does
Worker(p) ==
    \/ WorkerTake(p)
    \/ ProcessDial(p)
    \/ UpdateStateLock(p)
    \/ UpdateStateLookup(p)
    \/ UpdateStateWrite(p)
    \/ UpdateStateUnlock(p)
    \/ ProcessMetrics(p)
    \/ WorkerStop(p)

\* --------------------------------------------------------------- exporter mode
\* main from workerPool.Start() on: pc "start" in Start's loop with i workers
\* started, "pass" in a pass over the targets with i AddJob calls made (with all
\* made and returned main is at the select), "stop" in workerPool.Stop(), "done"
\* returned; pass counts the ticks received.
\* The target lists the exporter is started with: "a", or "a" and "b", ungrouped.
PoolTargets ==
    LET a == [URL |-> "a", Group |-> ""]
        b == [URL |-> "b", Group |-> ""]
    IN  {<<a>>, <<a, b>>}

InitExporter ==
    /\ now = 1
    /\ circuitBreakers = <<>>
    /\ ret = NoCall
    /\ hist = NewHist
    /\ search = NoSearch
    /\ exporterState = "es"
    /\ SearchResult = NewSearchResult
    /\ ck = [p \in Procs |-> NewFrame]
    /\ heap = <<>>
    /\ states = <<>>
    /\ result = <<>>
    /\ esMu = "free"
    /\ us = [p \in Procs |-> NoUpdate]
    /\ calls = [k \in {Key(u, NoSearch.Protocol) : u \in StateURLs} |-> 0]
    /\ urlsWithGroups \in PoolTargets
    /\ checkResults = <<>>
    /\ groupName = ""
    /\ groupStatus = <<>>
    /\ cbMade = 0
    /\ cbAt = <<>>
    /\ gc = <<>>
    /\ workers \in 1..Len(WorkerProcs)
    /\ jobQueue = <<>>
    /\ stopChan = "open"
    /\ wg = 0
    /\ wk = [p \in Procs |-> NoWorker]
    /\ aj = <<>>
    /\ stop = "none"
    /\ added = 0
    /\ taken = [k \in {Key(u, NoSearch.Protocol) : u \in StateURLs} |-> 0]
    /\ main = [pc |-> "start", i |-> 0, pass |-> 0]
    /\ tickerC = 0
    /\ sigChan = 0
    /\ ticks = 0
    /\ NoRun
    /\ NoMetrics
    /\ NoFunction
    /\ NoTransitions
    /\ NoCallers

\* Start's loop: wp.wg.Add(1); go wp.worker(i). After the last worker main goes
\* on to signal.Notify, time.NewTicker and the initial pass.
MainStart ==
    /\ main.pc = "start"
    /\ wg' = wg + 1
    /\ wk' = [wk EXCEPT ![WorkerProcs[main.i + 1]].pc = "select"]
    /\ main' = IF main.i + 1 < workers THEN [main EXCEPT !.i = @ + 1]
               ELSE [main EXCEPT !.pc = "pass", !.i = 0]
    /\ UNCHANGED <<now, circuitBreakers, ret, hist, checkVars, stateVars, groupVars,
                   registryVars, workers, jobQueue, stopChan, aj, stop, added, taken,
                   tickerC, sigChan, ticks, runVars, metricVars, callVars, lockVars, transVars, timeVars>>

\* mutant: the pass goes through the targets from the last to the first
MainAddJob_Backwards ==
    /\ main.pc = "pass"
    /\ main.i < Len(urlsWithGroups)
    /\ AddJobCall(CheckJob(urlsWithGroups[Len(urlsWithGroups) - main.i].URL))
    /\ main' = [main EXCEPT !.i = @ + 1]

\* the loop over urlsWithGroups: workerPool.AddJob(job) for the next target
MainAddJob ==
    /\ main.pc = "pass"
    /\ main.i < Len(urlsWithGroups)
    /\ AddJobCall(CheckJob(urlsWithGroups[main.i + 1].URL))
    /\ main' = [main EXCEPT !.i = @ + 1]

\* main is at the select of the monitoring loop
AtSelect ==
    /\ main.pc = "pass"
    /\ main.i = Len(urlsWithGroups)
    /\ aj = <<>>

\* the ticks that found ticker.C full: sent, neither received nor in ticker.C
Dropped == ticks - main.pass - tickerC

\* the ticker fires: ticker.C holds one tick, and the runtime drops a tick that
\* finds it full (main was in a pass for a whole interval)
TickerSend ==
    /\ main.pc = "pass"
    /\ IF tickerC = 0
         THEN ticks - Dropped < MaxTicks /\ tickerC' = 1
         ELSE Dropped < MaxDropped /\ tickerC' = tickerC
    /\ ticks' = ticks + 1
    /\ UNCHANGED <<now, circuitBreakers, ret, hist, checkVars, stateVars, groupVars,
                   registryVars, poolVars, main, sigChan, runVars, metricVars, callVars, lockVars, transVars, timeVars>>

\* SIGINT or SIGTERM is delivered to sigChan, which holds one signal
Signal ==
    /\ main.pc = "pass"
    /\ sigChan = 0
    /\ sigChan' = 1
    /\ UNCHANGED <<now, circuitBreakers, ret, hist, checkVars, stateVars, groupVars,
                   registryVars, poolVars, main, tickerC, ticks, runVars, metricVars, callVars, lockVars, transVars, timeVars>>

\* case <-ticker.C: the next pass starts
MainSelectTick ==
    /\ AtSelect
    /\ tickerC = 1
    /\ tickerC' = 0
    /\ main' = [main EXCEPT !.i = 0, !.pass = @ + 1]
    /\ UNCHANGED <<now, circuitBreakers, ret, hist, checkVars, stateVars, groupVars,
                   registryVars, poolVars, sigChan, ticks, runVars, metricVars, callVars, lockVars, transVars, timeVars>>

\* mutant: main returns on the signal without calling Stop
MainSelectSignal_NoStop ==
    /\ AtSelect
    /\ sigChan = 1
    /\ sigChan' = 0
    /\ main' = [main EXCEPT !.pc = "done"]
    /\ UNCHANGED <<now, circuitBreakers, ret, hist, checkVars, stateVars, groupVars,
                   registryVars, poolVars, tickerC, ticks, runVars, metricVars, callVars, lockVars, transVars, timeVars>>

\* case <-sigChan: the log line; workerPool.Stop() is next
MainSelectSignal ==
    /\ AtSelect
    /\ sigChan = 1
    /\ sigChan' = 0
    /\ main' = [main EXCEPT !.pc = "stop"]
    /\ UNCHANGED <<now, circuitBreakers, ret, hist, checkVars, stateVars, groupVars,
                   registryVars, poolVars, tickerC, ticks, runVars, metricVars, callVars, lockVars, transVars, timeVars>>

\* workerPool.Stop() has returned: return
MainReturn ==
    /\ main.pc = "stop"
    /\ stop = "returned"
    /\ main' = [main EXCEPT !.pc = "done"]
    /\ UNCHANGED <<now, circuitBreakers, ret, hist, checkVars, stateVars, groupVars,
                   registryVars, poolVars, tickerC, sigChan, ticks, runVars, metricVars, callVars, lockVars, transVars, timeVars>>

\* main calls AddJob only before it calls Stop, so AddJob's stop case cannot be
\* taken here
NextExporter ==
    \/ MainStart
    \/ MainAddJob
    \/ AddJobSend
    \/ TickerSend
    \/ Signal
    \/ MainSelectTick
    \/ MainSelectSignal
    \/ main.pc = "stop" /\ StopClose
    \/ StopWait
    \/ MainReturn
    \/ \E p \in Procs : Worker(p)

SpecExporter == InitExporter /\ [][NextExporter]_vars

\* what main does, and what the pool does for it in Stop
MainProc ==
    \/ MainStart
    \/ MainAddJob
    \/ AddJobSend
    \/ MainSelectTick
    \/ MainSelectSignal
    \/ main.pc = "stop" /\ StopClose
    \/ StopWait
    \/ MainReturn

\* every goroutine that can run does (so every dial returns), and a select that
\* finds a signal in sigChan again and again takes it at some time: the Go
\* runtime chooses among the ready cases of a select at random
SpecExporterFair ==
    /\ SpecExporter
    /\ WF_vars(MainProc)
    /\ SF_vars(MainSelectSignal)
    /\ \A p \in Procs : WF_vars(Worker(p))

\* ------------------------------------------------------------ runHealthChecks
\* runHealthChecks(search, urlsWithGroups, jsonOutput, &wg, &mu, nil): pc "spawn"
\* in the loop with i goroutines started, "wait" in wg.Wait(), "summary" after
\* it, "done" with the group summary printed.
RunTargets == [URL : URLs, Group : {"", "g1", "g2"}]

NoRunner == [pc |-> "none", result |-> NewSearchResult]

\* mutant: the group of every target, seen before or not
getAllGroups_NoMap(targets) == [i \in 1..Len(targets) |-> targets[i].Group]

\* getAllGroups: the group names in the order of their first occurrence
RECURSIVE getAllGroups(_)
getAllGroups(targets) ==
    IF targets = <<>> THEN <<>>
    ELSE LET n == Len(targets)
             groups == getAllGroups(SubSeq(targets, 1, n - 1))
         IN  IF \E j \in 1..Len(groups) : groups[j] = targets[n].Group
             THEN groups
             ELSE Append(groups, targets[n].Group)

InitRun ==
    /\ now = 1
    /\ circuitBreakers = <<>>
    /\ ret = NoCall
    /\ hist = NewHist
    /\ \E r \in 0..MaxRetry : search = [NoSearch EXCEPT !.RetryCount = r]
    /\ exporterState = "nil"
    /\ SearchResult = NewSearchResult
    /\ ck = [p \in Procs |-> NewFrame]
    /\ NoUpdates
    /\ \E n \in 1..Len(WorkerProcs) : urlsWithGroups \in [1..n -> RunTargets]
    /\ checkResults = <<>>
    /\ groupName = ""
    /\ groupStatus = <<>>
    /\ cbMade = 0
    /\ cbAt = <<>>
    /\ gc = <<>>
    /\ workers = 0
    /\ jobQueue = <<>>
    /\ stopChan = "open"
    /\ wg = 0
    /\ wk = <<>>
    /\ aj = <<>>
    /\ stop = "none"
    /\ added = 0
    /\ taken = <<>>
    /\ main = <<>>
    /\ tickerC = 0
    /\ sigChan = 0
    /\ ticks = 0
    /\ run = [pc |-> "spawn", i |-> 0]
    /\ runWg = 0
    /\ gr = [p \in Procs |-> NoRunner]
    /\ urlResults = <<>>
    /\ NoMetrics
    /\ NoFunction
    /\ NoTransitions
    /\ NoCallers

\* the urlWithGroup argument of the func running in goroutine p
TargetOf(p) == urlsWithGroups[CHOOSE i \in 1..Len(urlsWithGroups) : WorkerProcs[i] = p]

\* the loop: wg.Add(1); go func(urlWithGroup)
RunSpawn ==
    /\ run.pc = "spawn"
    /\ runWg' = runWg + 1
    /\ gr' = [gr EXCEPT ![WorkerProcs[run.i + 1]].pc = "check"]
    /\ run' = IF run.i + 1 < Len(urlsWithGroups) THEN [run EXCEPT !.i = @ + 1]
              ELSE [run EXCEPT !.pc = "wait"]
    /\ UNCHANGED <<now, circuitBreakers, ret, hist, checkVars, stateVars, groupVars,
                   registryVars, poolVars, mainVars, urlResults, metricVars, callVars, lockVars, transVars, timeVars>>

\* the goroutine calls search.Check(urlWithGroup.URL, exporterState)
RunCheck(p) ==
    /\ gr[p].pc = "check"
    /\ SearchResult' = Entered(TargetOf(p).URL)
    /\ ck' = [ck EXCEPT ![p] = [NewFrame EXCEPT !.pc = "addr"]]
    /\ gr' = [gr EXCEPT ![p].pc = "inCheck"]
    /\ UNCHANGED <<now, circuitBreakers, ret, hist, search, exporterState, stateVars,
                   groupVars, registryVars, poolVars, mainVars, run, runWg, urlResults, metricVars, callVars, lockVars, transVars, timeVars>>

\* Check has returned: result := &SearchResult{...} copies the fields of the
\* shared search.SearchResult
RunResult(p) ==
    /\ gr[p].pc = "inCheck"
    /\ ck[p].pc = "idle"
    /\ gr' = [gr EXCEPT ![p].pc = "store", ![p].result = SearchResult]
    /\ UNCHANGED <<now, circuitBreakers, ret, hist, checkVars, stateVars, groupVars,
                   registryVars, poolVars, mainVars, run, runWg, urlResults, metricVars, callVars, lockVars, transVars, timeVars>>

\* under resultsMutex: checkResults[URL] = search.SearchResult.State == "Success"
\* and urlResults[URL] = result
RunStore(p) ==
    /\ gr[p].pc = "store"
    /\ LET url == TargetOf(p).URL
       IN  /\ checkResults' = [u \in DOMAIN checkResults \cup {url} |->
                                  IF u = url THEN SearchResult.State = "Success"
                                  ELSE checkResults[u]]
           /\ urlResults' = [u \in DOMAIN urlResults \cup {url} |->
                                 IF u = url THEN gr[p].result ELSE urlResults[u]]
    /\ gr' = [gr EXCEPT ![p].pc = "print"]
    /\ UNCHANGED <<now, circuitBreakers, ret, hist, checkVars, stateVars, urlsWithGroups,
                   groupName, groupStatus, registryVars, poolVars, mainVars, run, runWg, metricVars, callVars, lockVars, transVars, timeVars>>

\* the result is printed; wg.Done()
RunDone(p) ==
    /\ gr[p].pc = "print"
    /\ runWg' = runWg - 1
    /\ gr' = [gr EXCEPT ![p].pc = "done"]
    /\ UNCHANGED <<now, circuitBreakers, ret, hist, checkVars, stateVars, groupVars,
                   registryVars, poolVars, mainVars, run, urlResults, metricVars, callVars, lockVars, transVars, timeVars>>

\* mutant: runHealthChecks does not wait for the goroutines
RunWait_NoWait ==
    /\ run.pc = "wait"
    /\ run' = [run EXCEPT !.pc = "summary"]
    /\ UNCHANGED <<now, circuitBreakers, ret, hist, checkVars, stateVars, groupVars,
                   registryVars, poolVars, mainVars, runWg, gr, urlResults, metricVars, callVars, lockVars, transVars, timeVars>>

\* wg.Wait() returns
RunWait ==
    /\ run.pc = "wait"
    /\ runWg = 0
    /\ run' = [run EXCEPT !.pc = "summary"]
    /\ UNCHANGED <<now, circuitBreakers, ret, hist, checkVars, stateVars, groupVars,
                   registryVars, poolVars, mainVars, runWg, gr, urlResults, metricVars, callVars, lockVars, transVars, timeVars>>

\* the group summary: calculateGroupHealth for every group of getAllGroups but ""
RunSummary ==
    /\ run.pc = "summary"
    /\ LET groups == SelectSeq(getAllGroups(urlsWithGroups), LAMBDA g : g # "")
       IN  groupStatus' = [j \in 1..Len(groups) |->
                              calculateGroupHealth(groups[j], urlsWithGroups, checkResults)]
    /\ run' = [run EXCEPT !.pc = "done"]
    /\ UNCHANGED <<now, circuitBreakers, ret, hist, checkVars, stateVars, urlsWithGroups,
                   checkResults, groupName, registryVars, poolVars, mainVars, runWg, gr,
                   urlResults, metricVars, callVars, lockVars, transVars, timeVars>>

NextRun ==
    \/ RunSpawn
    \/ \E p \in Procs :
          \/ RunCheck(p)
          \/ CheckAddr(p)
          \/ CheckDial(p)
          \/ CheckSleep(p)
          \/ CheckFinish(p)
          \/ RunResult(p)
          \/ RunStore(p)
          \/ RunDone(p)
    \/ RunWait
    \/ RunSummary

SpecRun == InitRun /\ [][NextRun]_vars

\* ------------------------------------------- calls on a started worker pool
\* A pool after Start(): one goroutine calls AddJob with any jobs, another
\* calls Stop at any time.
InitPool ==
    /\ now = 1
    /\ circuitBreakers = <<>>
    /\ ret = NoCall
    /\ hist = NewHist
    /\ search = NoSearch
    /\ exporterState = "es"
    /\ SearchResult = NewSearchResult
    /\ ck = [p \in Procs |-> NewFrame]
    /\ heap = <<>>
    /\ states = <<>>
    /\ result = <<>>
    /\ esMu = "free"
    /\ us = [p \in Procs |-> NoUpdate]
    /\ calls = [k \in {Key(u, NoSearch.Protocol) : u \in StateURLs} |-> 0]
    /\ NoGroups
    /\ cbMade = 0
    /\ cbAt = <<>>
    /\ gc = <<>>
    /\ workers \in 1..Len(WorkerProcs)
    /\ jobQueue = <<>>
    /\ stopChan = "open"
    /\ wg = workers
    /\ wk = [p \in Procs |->
                IF \E i \in 1..workers : WorkerProcs[i] = p
                THEN [NoWorker EXCEPT !.pc = "select"] ELSE NoWorker]
    /\ aj = <<>>
    /\ stop = "none"
    /\ added = 0
    /\ taken = [k \in {Key(u, NoSearch.Protocol) : u \in StateURLs} |-> 0]
    /\ main = <<>>
    /\ tickerC = 0
    /\ sigChan = 0
    /\ ticks = 0
    /\ NoRun
    /\ NoMetrics
    /\ NoFunction
    /\ NoTransitions
    /\ NoCallers

NextPool ==
    \/ \E url \in StateURLs :
          /\ added < MaxJobs
          /\ AddJobCall(CheckJob(url))
          /\ UNCHANGED main
    \/ AddJobSend
    \/ AddJobStopped
    \/ StopClose
    \/ StopWait
    \/ \E p \in Procs : Worker(p)

SpecPool == InitPool /\ [][NextPool]_vars

\* the goroutine in AddJob runs whenever its select has a ready case
SpecPoolFair == SpecPool /\ WF_vars(AddJobSend \/ AddJobStopped)

\* every goroutine that can run does: the workers too, so every dial returns
SpecPoolWork == SpecPoolFair /\ \A p \in Procs : WF_vars(Worker(p))

\* --------------------------------------------------- importFromFileWithGroups
\* A line of the file is held as its characters, <<"[", "g", ":", "x", "]">> for
\* "[g:x]"; a URL and a group name of this part are held the same way. Lines
\* are the lines a file is made of here: an empty and a blank line, a comment,
\* two targets (one with spaces around it), a line in brackets without a
\* colon, and headers with the names x, y and with no name.
Lines ==
    { <<>>, <<" ">>, <<"#", "a">>, <<"a">>, <<" ", "b", " ">>, <<"[", "a", "]">>,
      <<"[", "g", ":", "x", "]">>, <<"[", "g", ":", " ", "y", "]">>,
      <<"[", "g", ":", "]">> }

\* strings.Trim(s, cutset); strings.TrimSpace(s) is TrimOf(s, {" "})
TrimOf(s, cutset) ==
    LET kept == {i \in 1..Len(s) : s[i] \notin cutset}
    IN  IF kept = {} THEN <<>>
        ELSE SubSeq(s, CHOOSE i \in kept : \A j \in kept : i <= j,
                       CHOOSE i \in kept : \A j \in kept : j <= i)

\* the body of the scanner loop for one line: the value of
\* [currentGroup, urlsWithGroups] after it
ScanLine(acc, text) ==
    LET line == TrimOf(text, {" "})
        groupContent == TrimOf(line, {"[", "]"})
        colons == {i \in 1..Len(groupContent) : groupContent[i] = ":"}
        colon == CHOOSE i \in colons : \A j \in colons : i <= j
    IN  IF line = <<>> \/ line[1] = "#"
        THEN acc
        ELSE IF line[1] = "[" /\ line[Len(line)] = "]" /\ colons # {}
        THEN [acc EXCEPT !.currentGroup =
                 TrimOf(SubSeq(groupContent, colon + 1, Len(groupContent)), {" "})]
        ELSE [acc EXCEPT !.urlsWithGroups =
                 Append(@, [URL |-> line, Group |-> acc.currentGroup])]

\* the scanner loop over the first n lines
RECURSIVE ImportScan(_, _)
ImportScan(lines, n) ==
    IF n = 0 THEN [currentGroup |-> <<>>, urlsWithGroups |-> <<>>]
    ELSE ScanLine(ImportScan(lines, n - 1), lines[n])

importFromFileWithGroups(lines) == ImportScan(lines, Len(lines)).urlsWithGroups

\* a process in which nothing runs but one function called on its own
Idle ==
    /\ now = 1
    /\ circuitBreakers = <<>>
    /\ ret = NoCall
    /\ hist = NewHist
    /\ search = NoSearch
    /\ exporterState = "nil"
    /\ SearchResult = NewSearchResult
    /\ ck = [p \in Procs |-> NewFrame]
    /\ NoUpdates
    /\ NoGroups
    /\ cbMade = 0
    /\ cbAt = <<>>
    /\ gc = <<>>
    /\ NoPool
    /\ NoMetrics
    /\ NoCallers
    /\ NoTransitions

InitImport ==
    /\ Idle
    /\ \E n \in 0..MaxLines : args \in [1..n -> Lines]
    /\ returned = <<>>

ImportFromFile ==
    /\ returned = <<>>
    /\ returned' = <<importFromFileWithGroups(args)>>
    /\ UNCHANGED <<now, circuitBreakers, ret, hist, checkVars, stateVars, groupVars,
                   registryVars, poolVars, mainVars, runVars, metricVars, args, lockVars, transVars, timeVars>>

SpecImport == InitImport /\ [][ImportFromFile]_vars

\* --------------------------------------------------------------- configuration
\* A Config is a record of its fields. A duration string is held as its
\* characters (<<"5", "s">> for "5s", <<>> for ""), a list as a sequence, the
\* Groups map as a function from group names to GroupConfigs, a *Config as
\* <<>> (nil) or <<c>>, an error as nil or <<message>>.
ZeroConfig ==
    [URLs |-> <<>>, File |-> "", Port |-> "", Protocol |-> "", Timeout |-> <<>>,
     JSONOutput |-> FALSE, Metrics |-> FALSE, MetricsPort |-> 0, Exporter |-> FALSE,
     CheckInterval |-> <<>>, Workers |-> 0, GroupName |-> "", Groups |-> <<>>,
     WarningThreshold |-> <<>>, CriticalThreshold |-> <<>>, RetryCount |-> 0,
     RetryDelay |-> <<>>, CircuitBreakerThreshold |-> 0, CircuitBreakerTimeout |-> <<>>]

DefaultConfig ==
    [ZeroConfig EXCEPT !.Port = "80", !.Protocol = "tcp", !.Timeout = <<"5", "s">>,
                       !.MetricsPort = 9090, !.CheckInterval = <<"3", "0", "s">>,
                       !.Workers = 5, !.WarningThreshold = <<"5", "0", "0", "m", "s">>,
                       !.CriticalThreshold = <<"1", "s">>, !.RetryCount = 3,
                       !.RetryDelay = <<"1", "s">>, !.CircuitBreakerThreshold = 5,
                       !.CircuitBreakerTimeout = <<"6", "0", "s">>]

\* the values a field of a drawn Config takes: the zero value among them, and
\* for the numbers validateConfig bounds both ends of the range and the numbers
\* next to them
Values(f) ==
    CASE f \in {"File", "Port", "Protocol", "GroupName"} -> {"", "x"}
      [] f \in {"JSONOutput", "Metrics", "Exporter"} -> BOOLEAN
      [] f = "URLs" -> {<<>>, <<"b">>}
      [] f = "Groups" -> {<<>>, [g \in {"g1"} |-> "B"], [g \in {"g2"} |-> "B"]}
      [] f = "MetricsPort" -> {0, 1, 65535, 65536}
      [] f = "RetryCount" -> {-1, 0, 10, 11}
      [] f \in {"Workers", "CircuitBreakerThreshold"} -> {0, 1, 100, 101}
      [] OTHER -> {<<>>, <<"2", "s">>, <<"9", "m", "s">>, <<"1", "m">>}

\* the Configs that differ from c in at most n fields
RECURSIVE Variants(_, _)
Variants(c, n) ==
    IF n = 0 THEN {c}
    ELSE UNION { UNION { {[d EXCEPT ![f] = v] : v \in Values(f)} : f \in DOMAIN c }
                 : d \in Variants(c, n - 1) }

\* mutant: every field of override is taken, zero or not
Merge_TakesZero(c, override) ==
    IF override = nil THEN c ELSE override[1]

\* c.Merge(override): the value of *c after the call
Merge(c, override) ==
    IF override = nil THEN c
    ELSE LET o == override[1]
         IN  [f \in DOMAIN c |->
                IF f = "Groups"
                THEN [name \in DOMAIN c.Groups \cup DOMAIN o.Groups |->
                         IF name \in DOMAIN o.Groups THEN o.Groups[name]
                                                     ELSE c.Groups[name]]
                ELSE IF o[f] # ZeroConfig[f] THEN o[f] ELSE c[f]]

\* a Config that holds a group and a URL list, and override's possible values
InitMerge ==
    /\ Idle
    /\ \E c \in {DefaultConfig,
                  [DefaultConfig EXCEPT !.URLs = <<"a">>, !.Metrics = TRUE,
                                        !.Groups = [g \in {"g1"} |-> "A"]]} :
          \E override \in {nil} \cup {<<o>> : o \in Variants(ZeroConfig, MaxChanged)} :
             args = [c |-> c, override |-> override]
    /\ returned = <<>>

\* c.Merge(override) is called, once and then once more on the result
CallMerge ==
    /\ Len(returned) < 2
    /\ returned' = Append(returned,
                          Merge(IF returned = <<>> THEN args.c ELSE returned[1],
                                args.override))
    /\ UNCHANGED <<now, circuitBreakers, ret, hist, checkVars, stateVars, groupVars,
                   registryVars, poolVars, mainVars, runVars, metricVars, args, lockVars, transVars, timeVars>>

SpecMerge == InitMerge /\ [][CallMerge]_vars

\* strings.Contains(s, substr)
Contains(s, substr) ==
    \E i \in 1..(Len(s) - Len(substr) + 1) : SubSeq(s, i, i + Len(substr) - 1) = substr

\* mutant: the worker count is not validated
validateConfig_AnyWorkers(config) ==
    IF \E f \in {"Timeout", "WarningThreshold", "CriticalThreshold", "RetryDelay",
                  "CircuitBreakerTimeout", "CheckInterval"} :
          /\ config[f] # <<>>
          /\ ~Contains(config[f], <<"s">>) /\ ~Contains(config[f], <<"m", "s">>)
    THEN <<"invalid format">>
    ELSE IF config.MetricsPort < 1 \/ config.MetricsPort > 65535
    THEN <<"invalid metrics port">>
    ELSE IF config.RetryCount < 0 \/ config.RetryCount > 10
    THEN <<"invalid retry count">>
    ELSE IF config.CircuitBreakerThreshold < 1 \/ config.CircuitBreakerThreshold > 100
    THEN <<"invalid circuit breaker threshold">>
    ELSE nil

\* validateConfig(config): the error returned, nil if none
validateConfig(config) ==
    IF \E f \in {"Timeout", "WarningThreshold", "CriticalThreshold", "RetryDelay",
                  "CircuitBreakerTimeout", "CheckInterval"} :
          /\ config[f] # <<>>
          /\ ~Contains(config[f], <<"s">>) /\ ~Contains(config[f], <<"m", "s">>)
    THEN <<"invalid format">>
    ELSE IF config.MetricsPort < 1 \/ config.MetricsPort > 65535
    THEN <<"invalid metrics port">>
    ELSE IF config.Workers < 1 \/ config.Workers > 100
    THEN <<"invalid worker count">>
    ELSE IF config.RetryCount < 0 \/ config.RetryCount > 10
    THEN <<"invalid retry count">>
    ELSE IF config.CircuitBreakerThreshold < 1 \/ config.CircuitBreakerThreshold > 100
    THEN <<"invalid circuit breaker threshold">>
    ELSE nil

\* LoadConfig for a file that unmarshals to config: the (*Config, error) returned
LoadConfig(config) ==
    IF validateConfig(config) # nil
    THEN [config |-> nil, err |-> validateConfig(config)]
    ELSE [config |-> <<config>>, err |-> nil]

\* main is started with -config: the Config the file unmarshals to (a field the
\* file omits is zero) and the cliOverrides made of the flags, every flag at
\* its default but for at most one numeric flag
InitLoad ==
    /\ Idle
    /\ \E file \in Variants(DefaultConfig, MaxChanged) :
          \E f \in {"MetricsPort", "Workers", "RetryCount", "CircuitBreakerThreshold"} :
             \E v \in Values(f) \cup {DefaultConfig[f]} :
                args = [file |-> file,
                        cliOverrides |-> [DefaultConfig EXCEPT !.URLs = <<"">>, ![f] = v]]
    /\ returned = <<>>

\* fileConfig, err = config.LoadConfig(*configFile)
MainLoadConfig ==
    /\ returned = <<>>
    /\ returned' = <<LoadConfig(args.file)>>
    /\ UNCHANGED <<now, circuitBreakers, ret, hist, checkVars, stateVars, groupVars,
                   registryVars, poolVars, mainVars, runVars, metricVars, args, lockVars, transVars, timeVars>>

\* err is nil (log.Fatalf ends the process otherwise): finalConfig = fileConfig
\* and finalConfig.Merge(cliOverrides); returned[2] is finalConfig
MainMerge ==
    /\ Len(returned) = 1
    /\ returned[1].err = nil
    /\ returned' = Append(returned, Merge(returned[1].config[1], <<args.cliOverrides>>))
    /\ UNCHANGED <<now, circuitBreakers, ret, hist, checkVars, stateVars, groupVars,
                   registryVars, poolVars, mainVars, runVars, metricVars, args, lockVars, transVars, timeVars>>

SpecLoad == InitLoad /\ [][MainLoadConfig \/ MainMerge]_vars

\* --------------------------------------------------------------- retry backoff
\* A time.Duration is a signed integer of fixed width: arithmetic on it wraps
\* around from MaxDuration to -(MaxDuration + 1).
Wrap(n) == ((n + MaxDuration + 1) % (2 * (MaxDuration + 1))) - (MaxDuration + 1)

\* the backoff of retryWithExponentialBackoff before the retry that follows
\* attempt: the nominal delay, the jitter when rand.Float64()*2 - 1 is
\* tenths/10 (float64(delay) * 0.1 * tenths/10, cut to an integer), and the
\* delay slept
Backoff(RetryDelay, Timeout, attempt, tenths) ==
    LET nominal == Wrap(RetryDelay * Wrap(2 ^ attempt))
        product == nominal * tenths
        jitter == IF product < 0 THEN -((-product) \div 100) ELSE product \div 100
        delay == Wrap(nominal + jitter)
    IN  [nominal |-> nominal, jitter |-> jitter,
         delay |-> IF delay > Timeout THEN Timeout \div 2 ELSE delay]

InitBackoff ==
    /\ Idle
    /\ \E RetryDelay \in 1..MaxRetryDelay, Timeout \in 0..MaxRetryDelay,
          attempt \in 0..MaxRetryCount :
          args = [RetryDelay |-> RetryDelay, Timeout |-> Timeout, attempt |-> attempt]
    /\ returned = <<>>

\* the delay is computed and slept
RetryBackoff ==
    /\ returned = <<>>
    /\ \E tenths \in -10..9 :
          returned' = <<Backoff(args.RetryDelay, args.Timeout, args.attempt, tenths)>>
    /\ UNCHANGED <<now, circuitBreakers, ret, hist, checkVars, stateVars, groupVars,
                   registryVars, poolVars, mainVars, runVars, metricVars, args, lockVars, transVars, timeVars>>

SpecBackoff == InitBackoff /\ [][RetryBackoff]_vars

\* --------------------------------------------- direct calls on one breaker
\* TestCircuitBreaker's object: one breaker, its methods called in any order,
\* each call atomic under cb.mu.
TheBreaker == "cb"

Called(op) ==
    LET cb == circuitBreakers[TheBreaker]
    IN  [hist EXCEPT
            !.last = op,
            !.from = cb.state,
            !.failures = IF op = "RecordSuccess" THEN 0
                         ELSE IF op = "RecordFailure" /\ hist.onlyFailures THEN @ + 1
                         ELSE @,
            !.onlyFailures = @ /\ op # "RecordSuccess",
            !.halfOpenExits =
                IF cb.state = CircuitHalfOpen /\ op \in {"RecordSuccess", "RecordFailure"}
                THEN @ \cup {op} ELSE @]

InitBreaker ==
    /\ now = 1
    /\ \E threshold \in Thresholds, timeout \in Timeouts :
          circuitBreakers = (TheBreaker :> NewCircuitBreaker(threshold, timeout))
    /\ ret = NoCall
    /\ hist = NewHist
    /\ search = NoSearch
    /\ exporterState = "nil"
    /\ SearchResult = NewSearchResult
    /\ ck = [p \in Procs |-> NewFrame]
    /\ NoUpdates
    /\ NoGroups
    /\ NoRegistry

CallIsOpen ==
    LET r == IsOpen(circuitBreakers[TheBreaker])
    IN  /\ circuitBreakers' = [circuitBreakers EXCEPT ![TheBreaker] = r.cb]
        /\ ret' = Returned("IsOpen", r.val, "none", 0)
        /\ hist' = Called("IsOpen")
        /\ UNCHANGED <<now, checkVars, stateVars, groupVars, registryVars, poolVars, mainVars, runVars, metricVars, callVars, lockVars, transVars, timeVars>>

CallGetState ==
    LET r == GetState(circuitBreakers[TheBreaker])
    IN  /\ circuitBreakers' = [circuitBreakers EXCEPT ![TheBreaker] = r.cb]
        /\ ret' = Returned("GetState", FALSE, r.val, 0)
        /\ hist' = Called("GetState")
        /\ UNCHANGED <<now, checkVars, stateVars, groupVars, registryVars, poolVars, mainVars, runVars, metricVars, callVars, lockVars, transVars, timeVars>>

CallRecordSuccess ==
    /\ circuitBreakers' =
          [circuitBreakers EXCEPT ![TheBreaker] = RecordSuccess(@)]
    /\ ret' = Returned("RecordSuccess", FALSE, "none", 0)
    /\ hist' = Called("RecordSuccess")
    /\ UNCHANGED <<now, checkVars, stateVars, groupVars, registryVars, poolVars, mainVars, runVars, metricVars, callVars, lockVars, transVars, timeVars>>

CallRecordFailure ==
    /\ circuitBreakers[TheBreaker].failureCount < MaxFailures
    /\ circuitBreakers' =
          [circuitBreakers EXCEPT ![TheBreaker] = RecordFailure(@)]
    /\ ret' = Returned("RecordFailure", FALSE, "none", 0)
    /\ hist' = Called("RecordFailure")
    /\ UNCHANGED <<now, checkVars, stateVars, groupVars, registryVars, poolVars, mainVars, runVars, metricVars, callVars, lockVars, transVars, timeVars>>

\* mutant: GetFailureCount moves an Open breaker past its timeout to HalfOpen
CallGetFailureCount_Transitions ==
    /\ circuitBreakers' =
          [circuitBreakers EXCEPT ![TheBreaker] = GetState(@).cb]
    /\ ret' = Returned("GetFailureCount", FALSE, "none",
                        GetFailureCount(circuitBreakers[TheBreaker]))
    /\ hist' = Called("GetFailureCount")
    /\ UNCHANGED <<now, checkVars, stateVars, groupVars, registryVars, poolVars, mainVars,
                   runVars, metricVars, callVars, lockVars, transVars, timeVars>>

CallGetFailureCount ==
    /\ ret' = Returned("GetFailureCount", FALSE, "none",
                        GetFailureCount(circuitBreakers[TheBreaker]))
    /\ hist' = Called("GetFailureCount")
    /\ UNCHANGED <<now, circuitBreakers, checkVars, stateVars, groupVars, registryVars, poolVars, mainVars, runVars, metricVars, callVars, lockVars, transVars, timeVars>>

CallGetLastFailure ==
    /\ ret' = Returned("GetLastFailure", FALSE, "none",
                        GetLastFailure(circuitBreakers[TheBreaker]))
    /\ hist' = Called("GetLastFailure")
    /\ UNCHANGED <<now, circuitBreakers, checkVars, stateVars, groupVars, registryVars, poolVars, mainVars, runVars, metricVars, callVars, lockVars, transVars, timeVars>>

NextBreaker ==
    \/ Tick
    \/ CallIsOpen
    \/ CallGetState
    \/ CallRecordSuccess
    \/ CallRecordFailure
    \/ CallGetFailureCount
    \/ CallGetLastFailure

SpecBreaker == InitBreaker /\ [][NextBreaker]_vars

\* ------------------------------------- concurrent RecordFailure on one breaker
\* Goroutines call RecordFailure on a new breaker, each at most once, while
\* another goroutine reads it. A call is cb.mu.Lock(), the reads of the fields
\* the method uses, its writes, and the deferred cb.mu.Unlock(); pc "idle"
\* before the call, "done" after it. A read (GetFailureCount under RLock,
\* GetState under Lock) waits for the mutex and is one step.
Callers == 1..MaxCallers

NoFailure == [pc |-> "idle", cb |-> <<>>]

InitLocked ==
    /\ now = 1
    /\ \E threshold \in Thresholds, timeout \in Timeouts :
          circuitBreakers = (TheBreaker :> NewCircuitBreaker(threshold, timeout))
    /\ ret = NoCall
    /\ hist = NewHist
    /\ search = NoSearch
    /\ exporterState = "nil"
    /\ SearchResult = NewSearchResult
    /\ ck = [p \in Procs |-> NewFrame]
    /\ NoUpdates
    /\ NoGroups
    /\ cbMade = 0
    /\ cbAt = <<>>
    /\ gc = <<>>
    /\ NoPool
    /\ NoMetrics
    /\ NoFunction
    /\ NoTransitions
    /\ cbMu = 0
    /\ rf = [c \in Callers |-> NoFailure]

\* a goroutine calls RecordFailure
FailureCall(c) ==
    /\ rf[c].pc = "idle"
    /\ rf' = [rf EXCEPT ![c].pc = "lock"]
    /\ UNCHANGED <<now, circuitBreakers, ret, hist, checkVars, stateVars, groupVars,
                   registryVars, poolVars, mainVars, runVars, metricVars, callVars, cbMu, transVars, timeVars>>

\* mutant: RecordFailure does not take cb.mu
FailureLock_NoMutex(c) ==
    /\ rf[c].pc = "lock"
    /\ cbMu' = cbMu
    /\ rf' = [rf EXCEPT ![c].pc = "load"]
    /\ UNCHANGED <<now, circuitBreakers, ret, hist, checkVars, stateVars, groupVars,
                   registryVars, poolVars, mainVars, runVars, metricVars, callVars, transVars, timeVars>>

\* cb.mu.Lock()
FailureLock(c) ==
    /\ rf[c].pc = "lock"
    /\ cbMu = 0
    /\ cbMu' = c
    /\ rf' = [rf EXCEPT ![c].pc = "load"]
    /\ UNCHANGED <<now, circuitBreakers, ret, hist, checkVars, stateVars, groupVars,
                   registryVars, poolVars, mainVars, runVars, metricVars, callVars, transVars, timeVars>>

\* oldState := cb.state and the read of cb.failureCount in cb.failureCount++
FailureLoad(c) ==
    /\ rf[c].pc = "load"
    /\ rf' = [rf EXCEPT ![c].cb = circuitBreakers[TheBreaker], ![c].pc = "store"]
    /\ UNCHANGED <<now, circuitBreakers, ret, hist, checkVars, stateVars, groupVars,
                   registryVars, poolVars, mainVars, runVars, metricVars, callVars, cbMu, transVars, timeVars>>

\* the writes: the count read plus one, lastFailure, and the state the switch
\* sets for the state read
FailureStore(c) ==
    /\ rf[c].pc = "store"
    /\ circuitBreakers' = [circuitBreakers EXCEPT ![TheBreaker] = RecordFailure(rf[c].cb)]
    /\ rf' = [rf EXCEPT ![c].pc = "unlock"]
    /\ UNCHANGED <<now, ret, hist, checkVars, stateVars, groupVars,
                   registryVars, poolVars, mainVars, runVars, metricVars, callVars, cbMu, transVars, timeVars>>

\* the deferred cb.mu.Unlock(); RecordFailure returns
FailureUnlock(c) ==
    /\ rf[c].pc = "unlock"
    /\ cbMu' = IF cbMu = c THEN 0 ELSE cbMu
    /\ rf' = [rf EXCEPT ![c].pc = "done"]
    /\ UNCHANGED <<now, circuitBreakers, ret, hist, checkVars, stateVars, groupVars,
                   registryVars, poolVars, mainVars, runVars, metricVars, callVars, transVars, timeVars>>

\* the reader's GetFailureCount, under cb.mu.RLock()
ReadFailureCount ==
    /\ cbMu = 0
    /\ ret' = Returned("GetFailureCount", FALSE, "none",
                        GetFailureCount(circuitBreakers[TheBreaker]))
    /\ UNCHANGED <<now, circuitBreakers, hist, checkVars, stateVars, groupVars,
                   registryVars, poolVars, mainVars, runVars, metricVars, callVars, lockVars, transVars, timeVars>>

\* the reader's GetState, under cb.mu.Lock()
ReadState ==
    /\ cbMu = 0
    /\ LET r == GetState(circuitBreakers[TheBreaker])
       IN  /\ circuitBreakers' = [circuitBreakers EXCEPT ![TheBreaker] = r.cb]
           /\ ret' = Returned("GetState", FALSE, r.val, 0)
    /\ UNCHANGED <<now, hist, checkVars, stateVars, groupVars,
                   registryVars, poolVars, mainVars, runVars, metricVars, callVars, lockVars, transVars, timeVars>>

NextLocked ==
    \/ Tick
    \/ \E c \in Callers :
          \/ FailureCall(c)
          \/ FailureLock(c)
          \/ FailureLoad(c)
          \/ FailureStore(c)
          \/ FailureUnlock(c)
    \/ ReadFailureCount
    \/ ReadState

SpecLocked == InitLocked /\ [][NextLocked]_vars

\* ------------------------------------------------------------------ claims
cb0 == circuitBreakers[TheBreaker]

\* C1: from a new breaker with threshold T, after k RecordFailure calls and no
\* RecordSuccess the breaker is Closed with failure count k while k < T, and
\* the T-th RecordFailure leaves it Open.
C1_ThresholdOpens ==
    hist.onlyFailures =>
        /\ hist.failures < cb0.threshold =>
              cb0.state = CircuitClosed /\ cb0.failureCount = hist.failures
        /\ (hist.failures = cb0.threshold /\ hist.last = "RecordFailure") =>
              cb0.state = CircuitOpen /\ cb0.failureCount = hist.failures

C1_Witness ==
    /\ hist.onlyFailures
    /\ hist.last = "RecordFailure"
    /\ hist.from = CircuitClosed
    /\ cb0.threshold >= 3
    /\ hist.failures = cb0.threshold
    /\ cb0.state = CircuitOpen

\* C2: a RecordSuccess that finds the breaker HalfOpen leaves it Closed with
\* failure count 0; a RecordFailure that finds it HalfOpen leaves it Open with
\* lastFailure the time of the call.
C2_HalfOpenResolves ==
    [][cb0.state = CircuitHalfOpen =>
          /\ CallRecordSuccess =>
                /\ circuitBreakers'[TheBreaker].state = CircuitClosed
                /\ circuitBreakers'[TheBreaker].failureCount = 0
          /\ CallRecordFailure =>
                /\ circuitBreakers'[TheBreaker].state = CircuitOpen
                /\ circuitBreakers'[TheBreaker].lastFailure = now]_vars

C2_Witness ==
    /\ hist.halfOpenExits = {"RecordSuccess", "RecordFailure"}
    /\ hist.from = CircuitHalfOpen
    /\ hist.last = "RecordFailure"
    /\ cb0.threshold >= 2
    /\ cb0.state = CircuitOpen
    /\ cb0.lastFailure = now

\* C3: while Open with less than timeout elapsed since lastFailure, IsOpen
\* returns true and GetState returns Open and neither changes the breaker; a
\* read of an Open breaker with timeout elapsed makes it HalfOpen (IsOpen
\* returns false, GetState returns HalfOpen); Open becomes HalfOpen in no other
\* way, and HalfOpen is left only by RecordSuccess or RecordFailure.
C3_LazyHalfOpen ==
    [][LET early == now - cb0.lastFailure < cb0.timeout
           after == circuitBreakers'[TheBreaker]
       IN  /\ (cb0.state = CircuitOpen /\ early) =>
                 /\ CallIsOpen => (ret'.bool = TRUE /\ after = cb0)
                 /\ CallGetState => (ret'.state = CircuitOpen /\ after = cb0)
           /\ (cb0.state = CircuitOpen /\ ~early) =>
                 /\ CallIsOpen =>
                       (ret'.bool = FALSE /\ after = [cb0 EXCEPT !.state = CircuitHalfOpen])
                 /\ CallGetState =>
                       (ret'.state = CircuitHalfOpen
                        /\ after = [cb0 EXCEPT !.state = CircuitHalfOpen])
           /\ (cb0.state = CircuitOpen /\ after.state = CircuitHalfOpen) =>
                 (~early /\ (CallIsOpen \/ CallGetState))
           /\ (cb0.state = CircuitHalfOpen /\ after.state # CircuitHalfOpen) =>
                 (CallRecordSuccess \/ CallRecordFailure)
           /\ cb0.state = CircuitHalfOpen =>
                 /\ CallIsOpen => (ret'.bool = FALSE /\ after = cb0)
                 /\ CallGetState => (ret'.state = CircuitHalfOpen /\ after = cb0)]_vars

C3_Witness ==
    /\ cb0.state = CircuitHalfOpen
    /\ cb0.timeout >= 2
    /\ now - cb0.lastFailure >= cb0.timeout
    /\ hist.from = CircuitHalfOpen
    /\ hist.last = "GetState"
    /\ ret = Returned("GetState", FALSE, CircuitHalfOpen, 0)

\* the breaker a Check holds
Held(p) == circuitBreakers[ck[p].circuitBreaker]

\* C4: a breaker leaves Open only for HalfOpen, and only once timeout has
\* elapsed since lastFailure. (Stated as claimed; the code violates it.)
C4_OpenLeavesOnlyToHalfOpen ==
    [][\A k \in DOMAIN circuitBreakers :
          LET cb == circuitBreakers[k]
              after == circuitBreakers'[k]
          IN  (cb.state = CircuitOpen /\ after.state # CircuitOpen) =>
                 /\ after.state = CircuitHalfOpen
                 /\ now - cb.lastFailure >= cb.timeout]_vars

\* C5: a Check that finds its breaker Open with less than timeout elapsed is
\* rejected: its IsOpen leaves the breaker as it is, and it returns with state
\* "CircuitOpen" without a dial or a sleep and without touching the breaker.
C5_OpenRejects ==
    [][\A p \in Procs :
          /\ (/\ ck[p].pc = "isopen" /\ ck'[p] # ck[p]
              /\ Held(p).state = CircuitOpen
              /\ now - Held(p).lastFailure < Held(p).timeout) =>
                 /\ ck'[p].pc = "rejected"
                 /\ circuitBreakers' = circuitBreakers
          /\ (ck[p].pc = "rejected" /\ ck'[p] # ck[p]) =>
                 /\ ck[p].dials = 0 /\ ck[p].sleeps = 0
                 /\ ck'[p] = NewFrame
                 /\ SearchResult'.State = "CircuitOpen"
                 /\ SearchResult'.State \notin {"Failed", "Success"}
                 /\ circuitBreakers' = circuitBreakers]_vars

C5_Witness ==
    /\ \A p \in Procs : ck[p].pc = "idle"
    /\ SearchResult.State = "CircuitOpen"
    /\ \E k \in DOMAIN circuitBreakers :
          /\ circuitBreakers[k].state = CircuitOpen
          /\ circuitBreakers[k].timeout >= 2
          /\ now - circuitBreakers[k].lastFailure = 1

\* C6: with threshold 1, the RecordFailure of a failed Check leaves the breaker
\* Open and the RecordSuccess of a successful one leaves it Closed; a Check
\* whose IsOpen finds the breaker Open with timeout elapsed makes it HalfOpen
\* and goes on to dial.
C6_ThresholdOne ==
    [][\A p \in Procs :
          (ck[p].circuitBreaker # "nil" /\ Held(p).threshold = 1 /\ ck'[p] # ck[p]) =>
             /\ (/\ ck[p].pc = "isopen"
                 /\ Held(p).state = CircuitOpen
                 /\ now - Held(p).lastFailure >= Held(p).timeout) =>
                    /\ circuitBreakers'[ck[p].circuitBreaker].state = CircuitHalfOpen
                    /\ ck'[p].pc = "dial"
             /\ ck[p].pc = "dial" => ck'[p].dials = ck[p].dials + 1
             /\ ck[p].pc = "record" =>
                    /\ ck[p].dials >= 1
                    /\ ck[p].lastDial # nil =>
                          /\ circuitBreakers'[ck[p].circuitBreaker].state = CircuitOpen
                          /\ circuitBreakers'[ck[p].circuitBreaker].lastFailure = now
                    /\ ck[p].lastDial = nil =>
                          circuitBreakers'[ck[p].circuitBreaker].state = CircuitClosed]_vars

C6_Witness ==
    \E p \in Procs :
       /\ ck[p].pc = "newstate"
       /\ ck[p].gate = CircuitHalfOpen
       /\ ck[p].lastDial = nil
       /\ Held(p).threshold = 1
       /\ Held(p).timeout >= 1
       /\ Held(p).state = CircuitClosed
       /\ Held(p).lastFailure # ZeroTime
       /\ \A q \in Procs \ {p} : ck[q].pc = "idle"

\* C7: with retryCount R > 0, a retry run whose dials all failed has made
\* exactly R + 1 dials and R sleeps when it returns, and returns the error of
\* its last dial; no run makes more than R + 1 dials or more than R sleeps.
C7_AllFail ==
    \A p \in Procs :
       search.RetryCount > 0 =>
          /\ ck[p].dials <= search.RetryCount + 1
          /\ ck[p].sleeps <= search.RetryCount
          /\ (ck[p].pc = "sleep" => ck[p].sleeps < search.RetryCount)
          /\ (ck[p].pc \in {"oldstate", "record", "newstate", "finish"}
              /\ ck[p].fails = ck[p].dials) =>
                 /\ ck[p].dials = search.RetryCount + 1
                 /\ ck[p].sleeps = search.RetryCount
                 /\ ck[p].err = DialError(search.RetryCount + 1)
                 /\ ck[p].err = ck[p].lastDial

C7_Witness ==
    \E p \in Procs :
       /\ search.RetryCount = 3
       /\ ck[p].pc = "finish"
       /\ ck[p].fails = 4 /\ ck[p].dials = 4 /\ ck[p].sleeps = 3
       /\ ck[p].err = DialError(4)

\* C8: with retryCount R > 0, once a dial of a retry run has succeeded after i
\* failed dials (i <= R), the run has made i + 1 dials and i sleeps, is past
\* dialing and sleeping, and returns no error.
C8_FirstSuccess ==
    \A p \in Procs :
       (search.RetryCount > 0 /\ ck[p].dials > ck[p].fails) =>
          /\ ck[p].fails <= search.RetryCount
          /\ ck[p].fails = ck[p].attempt
          /\ ck[p].dials = ck[p].fails + 1
          /\ ck[p].sleeps = ck[p].fails
          /\ ck[p].pc \notin {"dial", "sleep"}
          /\ ck[p].lastDial = nil
          /\ ck[p].err = nil

C8_Witness ==
    \E p \in Procs :
       /\ search.RetryCount = 3
       /\ ck[p].pc = "finish"
       /\ ck[p].fails = 2 /\ ck[p].dials = 3 /\ ck[p].sleeps = 2
       /\ ck[p].err = nil

\* C9: calculateGroupHealth counts as TotalURLs the targets of the group, as
\* HealthyURLs those of them with a true entry in the results, UnhealthyURLs is
\* the difference, and IsHealthy holds iff the group has a member and every
\* member has a true entry; no member gives IsHealthy false and TotalURLs 0, two
\* members of which one is healthy give TotalURLs 2, HealthyURLs 1, IsHealthy false.
C9_GroupHealth ==
    groupStatus # <<>> =>
        LET st == groupStatus[1]
            members == {i \in 1..Len(urlsWithGroups) : urlsWithGroups[i].Group = groupName}
            healthy == {i \in members :
                           /\ urlsWithGroups[i].URL \in DOMAIN checkResults
                           /\ checkResults[urlsWithGroups[i].URL] = TRUE}
        IN  /\ st.TotalURLs = Cardinality(members)
            /\ st.HealthyURLs = Cardinality(healthy)
            /\ st.UnhealthyURLs = st.TotalURLs - st.HealthyURLs
            /\ st.IsHealthy = (st.TotalURLs > 0 /\ st.HealthyURLs = st.TotalURLs)
            /\ st.IsHealthy = (members # {} /\ healthy = members)
            /\ members = {} => (st.IsHealthy = FALSE /\ st.TotalURLs = 0)
            /\ (Cardinality(members) = 2 /\ Cardinality(healthy) = 1) =>
                  (st.TotalURLs = 2 /\ st.HealthyURLs = 1 /\ st.IsHealthy = FALSE)

C9_Witness ==
    /\ urlsWithGroups = <<[URL |-> "a.test", Group |-> "g1"],
                          [URL |-> "b.test", Group |-> "g1"]>>
    /\ checkResults = [u \in GroupURLs |-> u = "a.test"]
    /\ groupName = "g1"
    /\ groupStatus # <<>>
    /\ groupStatus[1].TotalURLs = 2
    /\ groupStatus[1].HealthyURLs = 1
    /\ groupStatus[1].IsHealthy = FALSE

\* C10: no UpdateState call is lost: the checkCount of a key is the number of
\* calls made for it less those that have not written yet (a key with no
\* written call has no entry), so with every call returned it is the number of
\* calls made for the key.
C10_NoLostUpdate ==
    \A k \in DOMAIN calls :
       LET pending == {p \in Procs : /\ us[p].pc \in {"lock", "lookup", "write"}
                                     /\ Key(us[p].url, us[p].protocol) = k}
           written == calls[k] - Cardinality(pending)
       IN  IF k \in DOMAIN states
           THEN heap[states[k]].CheckCount = written
           ELSE written = 0

C10_Witness ==
    /\ \A p \in Procs : us[p].pc = "idle"
    /\ \E k \in DOMAIN states : heap[states[k]].CheckCount = 2
    /\ \E k \in DOMAIN states : heap[states[k]].CheckCount = 1

\* what the caller of GetAllStates reads through the returned map: its keys and
\* the fields of the URLState each pointer leads to
Seen ==
    IF result = <<>> THEN <<>>
    ELSE [k \in DOMAIN result[1] |-> heap[result[1][k]]]

\* C11: once GetAllStates has returned a map, no later step changes what the
\* caller sees through it: neither its keys nor the fields of any URLState
\* reached through it.
C11_SnapshotImmutable ==
    [][result # <<>> /\ result' = result => Seen' = Seen]_vars

\* one object per key: as many breakers and URLStates were allocated as there
\* are keys, and no two keys hold the same object
OnePerKey ==
    /\ DOMAIN cbAt = DOMAIN circuitBreakers
    /\ cbMade = Cardinality(DOMAIN cbAt)
    /\ \A j, k \in DOMAIN cbAt : cbAt[j] = cbAt[k] => j = k
    /\ Len(heap) = Cardinality(DOMAIN states)
    /\ \A j, k \in DOMAIN states : states[j] = states[k] => j = k

\* no step removes or replaces an entry, and a step creates an entry only for
\* the key of the call it belongs to
EntriesKept ==
    /\ \A k \in DOMAIN cbAt :
          /\ k \in DOMAIN cbAt' /\ cbAt'[k] = cbAt[k]
          /\ k \in DOMAIN circuitBreakers' /\ circuitBreakers'[k] = circuitBreakers[k]
    /\ \A k \in DOMAIN states : k \in DOMAIN states' /\ states'[k] = states[k]
    /\ \A k \in DOMAIN cbAt' \ DOMAIN cbAt :
          \E p \in Procs : gc[p].pc = "body" /\ k = Key(gc[p].url, gc[p].protocol)
    /\ \A k \in DOMAIN states' \ DOMAIN states :
          \E p \in Procs : us[p].pc = "write" /\ k = Key(us[p].url, us[p].protocol)

\* a returning GetOrCreateCircuitBreaker call returns the breaker its key holds,
\* the one the key held before the call if it held one
FirstReturned ==
    \A p \in Procs :
       gc[p].pc = "body" /\ gc'[p].pc = "idle" =>
          LET key == Key(gc[p].url, gc[p].protocol)
          IN  /\ ret'.num = cbAt'[key]
              /\ key \in DOMAIN cbAt => ret'.num = cbAt[key]

\* C12: an ExporterState holds exactly one CircuitBreaker and at most one
\* URLState per key: every GetOrCreateCircuitBreaker call for a key, concurrent
\* or with another threshold or timeout, returns the instance the first call
\* created, entries appear only with a call for their key, and no entry is
\* ever removed or replaced.
C12_OneInstancePerKey ==
    []OnePerKey /\ [][EntriesKept /\ FirstReturned]_vars

\* a second call for the first key got the first breaker back after the breaker
\* of another key was made, an entry was updated in place, and a call with
\* another threshold and timeout is about to find its key's breaker
C12_Witness ==
    /\ ret.op = "GetOrCreateCircuitBreaker" /\ ret.num = 1
    /\ cbMade = 2
    /\ \E k \in DOMAIN states : heap[states[k]].CheckCount = 2
    /\ \E p \in Procs :
          /\ gc[p].pc = "body"
          /\ Key(gc[p].url, gc[p].protocol) \in DOMAIN circuitBreakers
          /\ gc[p].threshold # circuitBreakers[Key(gc[p].url, gc[p].protocol)].threshold
          /\ gc[p].timeout # circuitBreakers[Key(gc[p].url, gc[p].protocol)].timeout

\* C13: two Checks whose targets differ in the port (dial addresses a:80 and
\* a:443) are gated by different circuit breakers.
C13_BreakerPerPort ==
    \A p, q \in Procs :
       /\ ck[p].circuitBreaker # "nil"
       /\ ck[q].circuitBreaker # "nil"
       /\ ck[p].addr # ck[q].addr
       => cbAt[ck[p].circuitBreaker] # cbAt[ck[q].circuitBreaker]

\* C14: a worker consults the circuit breaker of its job's target before it
\* dials: a worker that has dialed has got that breaker from the ExporterState.
C14_WorkerConsultsBreaker ==
    \A p \in Procs :
       wk[p].pc = "update" =>
          Key(wk[p].job.URL, wk[p].job.Protocol) \in DOMAIN circuitBreakers

\* C15: Stop closes the stop signal, and when it has returned all N workers
\* have exited and every job a worker received has had its UpdateState applied.
C15_StopWaitsForWorkers ==
    /\ stop # "none" => stopChan = "closed"
    /\ stop = "returned" =>
          /\ \A i \in 1..workers : wk[WorkerProcs[i]].pc = "exited"
          /\ \A k \in DOMAIN taken :
                IF taken[k] = 0 THEN k \notin DOMAIN states
                ELSE k \in DOMAIN states /\ heap[states[k]].CheckCount = taken[k]

\* Stop is waiting, one worker has exited and the other, still in processJob,
\* has just had its UpdateState applied
C15_Witness ==
    /\ stop = "wait"
    /\ \E p, q \in Procs :
          /\ wk[p].pc = "exited"
          /\ wk[q].pc = "update" /\ us[q].pc = "unlock"

\* C16: once the stop signal is closed no worker receives a job from the queue.
C16_StopAbandonsQueued ==
    [][stopChan = "closed" => taken' = taken]_vars

\* C17: an AddJob call in progress once the stop signal is closed, whether it
\* was blocked on a full queue before or was made after the close, returns.
C17_AddJobReturns ==
    (aj # <<>> /\ stopChan = "closed") ~> (aj = <<>>)

\* an AddJob call is blocked on a full queue and the stop signal is closed
C17_Witness ==
    /\ aj # <<>>
    /\ stopChan = "closed"
    /\ Len(jobQueue) = Capacity

\* C18: when main first reaches the select that waits for the tick, every
\* target's entry in the ExporterState has been written.
C18_StartupPassSynchronous ==
    AtSelect /\ main.pass = 0 =>
       \A i \in 1..Len(urlsWithGroups) :
          Key(urlsWithGroups[i].URL, search.Protocol) \in DOMAIN states

\* C19: with every goroutine running when it can, a signal in sigChan leads to
\* main's return, also when main is blocked in AddJob on a full queue; main
\* returns only after the one Stop call has returned, with the stop signal
\* closed and every worker exited.
C19_SignalStopsExporter ==
    /\ (sigChan = 1) ~> (main.pc = "done")
    /\ [](main.pc = "done" =>
            /\ stop = "returned" /\ stopChan = "closed" /\ wg = 0
            /\ \A i \in 1..workers : wk[WorkerProcs[i]].pc = "exited")
    /\ [][stopChan = "closed" => stopChan' = "closed" /\ main.pc = "stop"]_vars

\* the signal is in sigChan while main is blocked in AddJob on a full queue
C19_Witness ==
    /\ sigChan = 1
    /\ aj # <<>>
    /\ Len(jobQueue) = Capacity

\* C20: when runHealthChecks has passed wg.Wait(), and so when it computes and
\* prints the group summary, the goroutine of every target has returned and
\* checkResults holds an entry for exactly the distinct URLs of the batch.
C20_SummaryAfterAllChecks ==
    run.pc \in {"summary", "done"} =>
       /\ \A i \in 1..Len(urlsWithGroups) : gr[WorkerProcs[i]].pc = "done"
       /\ DOMAIN checkResults = {urlsWithGroups[i].URL : i \in 1..Len(urlsWithGroups)}
       /\ DOMAIN urlResults = DOMAIN checkResults

\* the summary of a batch of two different targets in one group is printed
C20_Witness ==
    /\ run.pc = "done"
    /\ Len(urlsWithGroups) = 2
    /\ urlsWithGroups[1].URL # urlsWithGroups[2].URL
    /\ Len(groupStatus) = 1
    /\ groupStatus[1].TotalURLs = 2

\* C21: a Check rejected by an open circuit is not recorded as a failed check:
\* the step in which a rejected Check returns leaves every failed-check count
\* as it was
C21_RejectionNotFailedCheck ==
    [][\A p \in Procs :
          (ck[p].pc = "rejected" /\ ck'[p].pc = "idle")
             => FailedChecksCounter' = FailedChecksCounter]_vars

\* C22: getAllGroups returns every group name of the target list exactly once,
\* in the order of first occurrence, "" included; the summary runHealthChecks
\* prints has one line, in that order, for each of these groups but "".
C22_GroupsListed ==
    LET groups == getAllGroups(urlsWithGroups)
        first(g) == CHOOSE i \in 1..Len(urlsWithGroups) :
                       /\ urlsWithGroups[i].Group = g
                       /\ \A j \in 1..(i - 1) : urlsWithGroups[j].Group # g
        printed == [j \in 1..Len(groupStatus) |-> groupStatus[j].GroupName]
    IN  run # <<>> =>
           /\ {groups[j] : j \in 1..Len(groups)}
                 = {urlsWithGroups[i].Group : i \in 1..Len(urlsWithGroups)}
           /\ \A j, k \in 1..Len(groups) :
                 j < k => first(groups[j]) < first(groups[k])
           /\ run.pc = "done" =>
                 /\ {printed[j] : j \in 1..Len(printed)}
                       = {groups[j] : j \in 1..Len(groups)} \ {""}
                 /\ \A j, k \in 1..Len(printed) :
                       j < k => first(printed[j]) < first(printed[k])

\* the summary of a batch whose first target is in a group and whose second is
\* ungrouped has been printed: one line, for the group
C22_Witness ==
    /\ run.pc = "done"
    /\ getAllGroups(urlsWithGroups) = <<"g2", "">>
    /\ Len(groupStatus) = 1
    /\ groupStatus[1].GroupName = "g2"

\* C23: importFromFileWithGroups returns the target lines in file order, each
\* with the group named by the nearest header before it and with no group if
\* there is none; blank lines and comments yield no target and leave the group
\* as it is, so that no target after a header is ungrouped.
C23_GroupOfNearestHeader ==
    LET text(i) == TrimOf(args[i], {" "})
        skipped(i) == text(i) = <<>> \/ text(i)[1] = "#"
        header(i) == /\ ~skipped(i)
                     /\ text(i)[1] = "[" /\ text(i)[Len(text(i))] = "]"
                     /\ \E j \in 1..Len(text(i)) : text(i)[j] = ":"
        targets == {i \in 1..Len(args) : ~skipped(i) /\ ~header(i)}
        target(k) == CHOOSE i \in targets : Cardinality({j \in targets : j < i}) = k - 1
        headers(i) == {h \in 1..(i - 1) : header(h)}
        nearest(i) == CHOOSE h \in headers(i) : \A j \in headers(i) : j <= h
        name(h) == LET content == SubSeq(text(h), 2, Len(text(h)) - 1)
                       colon == CHOOSE j \in 1..Len(content) :
                                   /\ content[j] = ":"
                                   /\ \A m \in 1..(j - 1) : content[m] # ":"
                   IN  TrimOf(SubSeq(content, colon + 1, Len(content)), {" "})
    IN  returned # <<>> =>
           /\ Len(returned[1]) = Cardinality(targets)
           /\ \A k \in 1..Len(returned[1]) :
                 /\ returned[1][k].URL = text(target(k))
                 /\ IF headers(target(k)) = {}
                    THEN returned[1][k].Group = <<>>
                    ELSE /\ returned[1][k].Group = name(nearest(target(k)))
                         /\ returned[1][k].Group # <<>>

\* C24: after base.Merge(override) every field of base holds override's value
\* if that value is not the zero value of its type and base's previous value
\* otherwise; Merge(nil) changes nothing; a second Merge of the same override
\* changes nothing.
C24_MergeTakesNonZero ==
    returned # <<>> =>
       /\ IF args.override = nil
          THEN returned[1] = args.c
          ELSE \A f \in DOMAIN args.c :
                  returned[1][f] = IF args.override[1][f] # ZeroConfig[f]
                                   THEN args.override[1][f] ELSE args.c[f]
       /\ Len(returned) = 2 => returned[2] = returned[1]

\* C24 as the code has it: the same for every field but Groups; override's
\* groups are added to base's, a group of both taking override's GroupConfig.
C24_MergeKeepsOtherGroups ==
    returned # <<>> =>
       /\ IF args.override = nil
          THEN returned[1] = args.c
          ELSE LET o == args.override[1]
               IN  /\ \A f \in DOMAIN args.c \ {"Groups"} :
                         returned[1][f] = IF o[f] # ZeroConfig[f] THEN o[f] ELSE args.c[f]
                   /\ DOMAIN returned[1].Groups = DOMAIN args.c.Groups \cup DOMAIN o.Groups
                   /\ \A name \in DOMAIN o.Groups :
                         returned[1].Groups[name] = o.Groups[name]
                   /\ \A name \in DOMAIN args.c.Groups \ DOMAIN o.Groups :
                         returned[1].Groups[name] = args.c.Groups[name]
       /\ Len(returned) = 2 => returned[2] = returned[1]

\* a Config with group g1 was merged twice with an override that sets the
\* worker count and group g2 and nothing else
C24_Witness ==
    /\ Len(returned) = 2
    /\ args.override # nil
    /\ args.c.Workers = 5 /\ args.override[1].Workers = 100
    /\ DOMAIN args.c.Groups = {"g1"} /\ DOMAIN args.override[1].Groups = {"g2"}
    /\ returned[2].Workers = 100 /\ returned[2].Port = "80"

\* C25: validateConfig accepts a Config only if its worker count is in 1..100,
\* its circuit breaker threshold in 1..100, its retry count in 0..10 and its
\* metrics port in 1..65535; when it fails LoadConfig returns an error and no
\* Config, and main goes no further, so that each of these numbers in the
\* Config the checks run with is the one the flags gave or is in its range.
C25_FileValuesInRange ==
    LET InRange(c, f) ==
           CASE f = "MetricsPort" -> c[f] \in 1..65535
             [] f = "RetryCount" -> c[f] \in 0..10
             [] OTHER -> c[f] \in 1..100
        Numbers == {"MetricsPort", "Workers", "RetryCount", "CircuitBreakerThreshold"}
    IN  returned # <<>> =>
           /\ IF \A f \in Numbers : InRange(args.file, f)
              THEN returned[1].err = nil => returned[1].config = <<args.file>>
              ELSE returned[1].err # nil
           /\ returned[1].err # nil => returned[1].config = nil /\ Len(returned) = 1
           /\ Len(returned) = 2 =>
                 \A f \in Numbers :
                    \/ InRange(returned[2], f)
                    \/ returned[2][f] = args.cliOverrides[f]

\* LoadConfig has refused a file whose worker count is 101 and has no other fault
C25_Witness ==
    /\ returned # <<>>
    /\ returned[1].err = <<"invalid worker count">>
    /\ args.file = [DefaultConfig EXCEPT !.Workers = 101]

\* C26: before retry number a the nominal backoff delay is retryDelay * 2^a,
\* the jitter added is within a tenth of that delay either way, and the delay
\* slept is not greater than the dial timeout: a jittered delay greater than
\* the timeout is replaced by half the timeout.
C26_BackoffDelay ==
    returned # <<>> =>
       LET r == returned[1]
           abs(n) == IF n < 0 THEN -n ELSE n
       IN  /\ r.nominal = args.RetryDelay * 2 ^ args.attempt
           /\ 10 * abs(r.jitter) <= r.nominal
           /\ r.delay <= args.Timeout
           /\ r.delay = IF r.nominal + r.jitter > args.Timeout
                        THEN args.Timeout \div 2 ELSE r.nominal + r.jitter

\* C27: UpdateState changes the entry of its key only, and only in the step
\* that writes it: isUp and responseTime become the arguments and lastCheck the
\* time read; on success lastSuccess is set and lastFailure and failureCount are
\* kept; on failure lastFailure is set, failureCount grows by 1 and lastSuccess
\* is kept; a key without an entry gets one with checkCount 1 (and the zero
\* time and 0 as what is kept).
C27_UpdateStateFrame ==
    [][LET old == [k \in DOMAIN states |-> heap[states[k]]]
           new == [k \in DOMAIN states' |-> heap'[states'[k]]]
           writers == {p \in Procs : us[p].pc = "write" /\ us'[p].pc = "unlock"}
       IN  /\ writers = {} => new = old
           /\ \A p \in writers :
                 LET f == us[p]
                     key == Key(f.url, f.protocol)
                     was == IF key \in DOMAIN old
                            THEN old[key]
                            ELSE [LastSuccess |-> ZeroTime, LastFailure |-> ZeroTime,
                                  FailureCount |-> 0, CheckCount |-> 0]
                 IN  /\ DOMAIN new = DOMAIN old \cup {key}
                     /\ \A k \in DOMAIN old \ {key} : new[k] = old[k]
                     /\ new[key].IsUp = f.isUp
                     /\ new[key].ResponseTime = f.responseTime
                     /\ new[key].LastCheck = f.now
                     /\ key \notin DOMAIN old => new[key].CheckCount = 1
                     /\ IF f.isUp
                        THEN /\ new[key].LastSuccess = f.now
                             /\ new[key].LastFailure = was.LastFailure
                             /\ new[key].FailureCount = was.FailureCount
                        ELSE /\ new[key].LastFailure = f.now
                             /\ new[key].FailureCount = was.FailureCount + 1
                             /\ new[key].LastSuccess = was.LastSuccess]_vars

\* a key was updated with a failure and later with a success, another key not
\* at all or once: the failure is still on record
C27_Witness ==
    /\ \A p \in Procs : us[p].pc = "idle"
    /\ \E k \in DOMAIN states :
          /\ heap[states[k]].IsUp
          /\ heap[states[k]].FailureCount = 1
          /\ heap[states[k]].CheckCount = 2
          /\ heap[states[k]].LastFailure < heap[states[k]].LastSuccess
    /\ \E k \in DOMAIN states : heap[states[k]].CheckCount = 1

\* C28: a pool of N workers never holds more than 2N queued jobs nor has more
\* than N jobs being processed; while the pool is running an AddJob that finds
\* the queue full stays blocked, AddJob returns only by putting its job at the
\* end of the queue, and a job leaves the queue only as its head, to a worker.
C28_QueueBounded ==
    /\ [](/\ Len(jobQueue) <= 2 * workers
          /\ Cardinality({p \in DOMAIN wk : wk[p].pc \in {"dial", "update"}}) <= workers)
    /\ [][stopChan = "open" =>
            /\ (aj # <<>> /\ Len(jobQueue) = 2 * workers) => aj' = aj
            /\ (aj # <<>> /\ aj' = <<>>) => jobQueue' = Append(jobQueue, aj[1])
            /\ \/ jobQueue' = jobQueue
               \/ aj # <<>> /\ jobQueue' = Append(jobQueue, aj[1])
               \/ /\ jobQueue # <<>>
                  /\ jobQueue' = Tail(jobQueue)
                  /\ \E p \in DOMAIN wk :
                        wk[p].pc = "select" /\ wk'[p].job = Head(jobQueue)]_vars

\* an AddJob is blocked on the full queue of a running pool whose workers are
\* all processing a job
C28_Witness ==
    /\ stopChan = "open"
    /\ aj # <<>>
    /\ Len(jobQueue) = 2 * workers
    /\ workers > 0
    /\ \A i \in 1..workers : wk[WorkerProcs[i]].pc \in {"dial", "update"}

\* C29 as stated: one pass at startup and one for every tick of the ticker, so
\* with main back at the select and ticker.C empty the jobs that have entered
\* AddJob are (1 + ticks) times the target list. A tick that fired while
\* ticker.C still held one started no pass.
C29_JobsOnEveryTick ==
    AtSelect /\ tickerC = 0 => added = (1 + ticks) * Len(urlsWithGroups)

\* C29: the scheduler enqueues one job per target at startup and one per target
\* for every tick it receives, in the order of the target list: the jobs of a
\* URL that have entered AddJob are those of the passes made and of the targets
\* the current pass has gone through, and the queue (followed by the job
\* AddJob is sending) holds consecutive jobs of the repeated target list. The
\* scheduler and the workers share no state but the queue: a step of a running
\* worker leaves the scheduler's state alone, and a scheduling step the workers'.
C29_OneJobPerTargetPerPass ==
    /\ [](LET n == Len(urlsWithGroups)
              sent == jobQueue \o aj
              of(u, seq, m) == Cardinality({j \in 1..m : seq[j].URL = u})
          IN  main.pc # "start" =>
                 /\ added = main.pass * n + main.i
                 /\ \A u \in StateURLs :
                       of(u, sent, Len(sent)) + taken[Key(u, search.Protocol)]
                          = main.pass * of(u, urlsWithGroups, n)
                            + of(u, urlsWithGroups, main.i)
                 /\ \A j \in 1..Len(sent) :
                       sent[j] = CheckJob(
                          urlsWithGroups[((added - Len(sent) + j - 1) % n) + 1].URL))
    /\ [][main.pc = "pass" =>
            /\ wk' # wk => UNCHANGED <<main, aj, added, tickerC, sigChan, lockVars, transVars, timeVars>>
            /\ (main' # main \/ aj' # aj) => UNCHANGED <<wk, stateVars, taken, lockVars, transVars, timeVars>>]_vars

\* the startup pass and one more pass over two targets are complete, and one
\* tick was dropped on the way
C29_Witness ==
    /\ AtSelect
    /\ main.pass = 1
    /\ Dropped = 1
    /\ Len(urlsWithGroups) = 2
    /\ added = 4

\* C30: a job in the queue is received by one worker, in one step that takes
\* it off the queue, so the jobs that entered AddJob are in AddJob, in the
\* queue, or were taken once (or were dropped by AddJob after Stop); each job
\* taken makes one UpdateState call for its key when its dial returns, and each
\* call adds one to the key's CheckCount; with Stop not called every job
\* enqueued is processed at some time (AddJob is called finitely often here, so
\* again and again the CheckCounts add up to the number of jobs that entered
\* the queue), and in an idle pool the CheckCounts add up to the number of
\* jobs enqueued.
C30_EachJobProcessedOnce ==
    /\ [](LET keyOf(f) == Key(f.URL, f.Protocol)
              dialing(k) == Cardinality({p \in Procs :
                                wk[p].pc = "dial" /\ keyOf(wk[p].job) = k})
              writing(k) == Cardinality({p \in Procs :
                                /\ us[p].pc \in {"lock", "lookup", "write"}
                                /\ Key(us[p].url, us[p].protocol) = k})
              checkCount == [k \in DOMAIN taken |->
                                IF k \in DOMAIN states
                                THEN heap[states[k]].CheckCount ELSE 0]
          IN  /\ Sum(taken) + Len(jobQueue) + Len(aj) <= added
              /\ stop = "none" => Sum(taken) + Len(jobQueue) + Len(aj) = added
              /\ \A k \in DOMAIN taken :
                    /\ taken[k] = calls[k] + dialing(k)
                    /\ calls[k] = checkCount[k] + writing(k)
              /\ DOMAIN states \subseteq DOMAIN taken
              /\ (/\ stop = "none" /\ aj = <<>> /\ jobQueue = <<>>
                  /\ \A p \in Procs : wk[p].pc \in {"none", "select"})
                    => Sum(checkCount) = added)
    /\ [][\A p \in Procs :
             (wk[p].pc = "select" /\ wk'[p].pc = "dial") =>
                /\ jobQueue # <<>>
                /\ wk'[p].job = Head(jobQueue)
                /\ jobQueue' = Tail(jobQueue)
                /\ \A q \in Procs \ {p} : wk'[q] = wk[q]]_vars
    /\ []<>(\/ stopChan = "closed"
            \/ Sum([k \in DOMAIN states |-> heap[states[k]].CheckCount])
                  = Sum(taken) + Len(jobQueue))

\* three jobs for two keys were enqueued and the pool is idle, Stop not called
C30_Witness ==
    /\ stop = "none"
    /\ aj = <<>>
    /\ jobQueue = <<>>
    /\ \A p \in Procs : wk[p].pc \in {"none", "select"}
    /\ added = 3
    /\ DOMAIN states = DOMAIN taken
    /\ \E k \in DOMAIN states : heap[states[k]].CheckCount = 2

\* C31: the entry runHealthChecks stores for a target holds the address and the
\* port of that target and the outcome of its own check: the port is the one of
\* the target's URL (search.Port when the URL names none), and the healthy flag
\* stored with it agrees with the state of the entry.
C31_OwnResultStored ==
    \A u \in DOMAIN urlResults :
       /\ urlResults[u].Address = u[1]
       /\ urlResults[u].Port = IF Len(u) = 1 THEN search.Port ELSE u[2]
       /\ checkResults[u] = (urlResults[u].State = "Success")

\* C32: RecordFailure calls on one breaker are serialized. Whenever cb.mu is
\* free, and so whenever a reader can look, the failure count of a breaker that
\* was new is the number of calls that have returned and the breaker is Closed
\* exactly if that number is below the threshold; with k calls made and all
\* returned the count is k; and what a read returns is the count and the state
\* after the calls that had returned by then.
C32_FailuresSerialized ==
    /\ [](LET cb == circuitBreakers[TheBreaker]
              made == Cardinality({c \in Callers : rf[c].pc # "idle"})
              returned_ == Cardinality({c \in Callers : rf[c].pc = "done"})
          IN  /\ cbMu = 0 =>
                    /\ cb.failureCount = returned_
                    /\ cb.state = CircuitClosed <=> returned_ < cb.threshold
              /\ made = returned_ => cb.failureCount = made)
    /\ [][LET cb == circuitBreakers[TheBreaker]
              returned_ == Cardinality({c \in Callers : rf[c].pc = "done"})
          IN  ret' # ret =>
                 /\ ret'.op = "GetFailureCount" => ret'.num = returned_
                 /\ ret'.op = "GetState" =>
                       (ret'.state = CircuitClosed <=> returned_ < cb.threshold)]_vars

\* three concurrent calls have returned on a breaker of threshold 2, one of them
\* made while another held the mutex
C32_Witness ==
    /\ \A c \in Callers : rf[c].pc = "done"
    /\ MaxCallers >= 3
    /\ circuitBreakers[TheBreaker].threshold = 2
    /\ circuitBreakers[TheBreaker].state = CircuitOpen
    /\ ret.op = "GetFailureCount"
    /\ ret.num = 1

\* C33: a Check that the breaker lets through records one result in it, after
\* its last dial: the failure count of a breaker changes only in the one
\* recording step a Check makes between its dials and its return; a Check
\* whose retryCount + 1 dials all failed adds exactly 1 to the count, one with
\* a dial that succeeded records the success; and a Check never dials more than
\* retryCount + 1 times nor dials again after it has recorded.
C33_OneResultPerCheck ==
    /\ [](\A p \in Procs : ck[p].dials <= search.RetryCount + 1)
    /\ [][LET recording == {p \in Procs : ck[p].pc = "record" /\ ck'[p].pc = "newstate"}
          IN  /\ \A k \in DOMAIN circuitBreakers :
                    circuitBreakers'[k].failureCount # circuitBreakers[k].failureCount
                       => \E p \in recording : ck[p].circuitBreaker = k
              /\ \A p \in recording :
                    LET f == ck[p]
                        before == circuitBreakers[f.circuitBreaker].failureCount
                        after == circuitBreakers'[f.circuitBreaker].failureCount
                    IN  IF f.lastDial = nil
                        THEN after = 0
                        ELSE /\ f.dials = search.RetryCount + 1
                             /\ f.fails = f.dials
                             /\ after = before + 1
              /\ \A p \in Procs :
                    ck'[p].pc # ck[p].pc =>
                       /\ ck'[p].pc = "oldstate" => ck[p].pc = "dial"
                       /\ ck'[p].pc = "record" => ck[p].pc = "oldstate"
                       /\ ck'[p].pc = "newstate" => ck[p].pc = "record"
                       /\ ck'[p].pc = "finish" => ck[p].pc = "newstate"
                       /\ ck'[p].pc = "dial" => ck[p].pc \in {"isopen", "sleep"}
                       /\ ck[p].pc = "finish" => ck'[p].pc = "idle"]_vars

\* a Check with one retry has dialed twice, failed twice and recorded: the
\* breaker counts one failure
C33_Witness ==
    \E p \in Procs :
       /\ ck[p].pc = "newstate"
       /\ search.RetryCount = 1
       /\ ck[p].fails = 2
       /\ circuitBreakers[ck[p].circuitBreaker].failureCount = 1

\* C34: whatever calls have been made on a breaker of threshold >= 1, a Closed
\* breaker counts fewer failures than its threshold, and an Open or HalfOpen
\* one counts at least its threshold and holds the time of a failure.
C34_StateMatchesCount ==
    LET cb == circuitBreakers[TheBreaker]
    IN  /\ cb.threshold >= 1
        /\ cb.state = CircuitClosed => cb.failureCount < cb.threshold
        /\ cb.state \in {CircuitOpen, CircuitHalfOpen} =>
              /\ cb.failureCount >= cb.threshold
              /\ cb.lastFailure # ZeroTime

\* a breaker of threshold 2 is HalfOpen for the second time, with 3 failures
C34_Witness ==
    LET cb == circuitBreakers[TheBreaker]
    IN  /\ cb.threshold = 2
        /\ cb.state = CircuitHalfOpen
        /\ cb.failureCount = 3

\* C35: a Check that records a failure on a breaker that is Open by then leaves
\* it Open, adds one to the failure count and sets lastFailure to the time of
\* the call; lastFailure changes in no other step than a recorded failure, and
\* the gate rejects a Check at an Open breaker exactly while less than the
\* timeout has passed since lastFailure: the Open period runs from the most
\* recent recorded failure.
C35_FailureOnOpenRenews ==
    [][\A p \in Procs :
          LET k == ck[p].circuitBreaker
              cb == circuitBreakers[k]
              after == circuitBreakers'[k]
          IN  /\ (/\ ck[p].pc = "record" /\ ck'[p].pc = "newstate"
                  /\ ck[p].err # nil /\ cb.state = CircuitOpen)
                    => /\ after.state = CircuitOpen
                       /\ after.failureCount = cb.failureCount + 1
                       /\ after.lastFailure = now
              /\ (ck[p].pc # ck'[p].pc /\ k \in DOMAIN circuitBreakers
                  /\ after.lastFailure # cb.lastFailure)
                    => ck[p].pc = "record" /\ ck[p].err # nil
              /\ (ck[p].pc = "isopen" /\ ck'[p].pc # "isopen" /\ cb.state = CircuitOpen)
                    => (ck'[p].pc = "rejected" <=> now - cb.lastFailure < cb.timeout)]_vars

\* a Check that passed the gate of the Closed breaker has recorded its failure
\* at time 2 on the breaker another Check had opened: one failure above the
\* threshold, the timeout (2) never elapsed
C35_Witness ==
    \E p \in Procs :
       /\ ck[p].pc = "newstate"
       /\ ck[p].gate = CircuitClosed
       /\ ck[p].err # nil
       /\ search.CircuitTimeout = 2
       /\ now = 2
       /\ LET cb == circuitBreakers[ck[p].circuitBreaker]
          IN  /\ cb.state = CircuitOpen
              /\ cb.failureCount = cb.threshold + 1
              /\ cb.lastFailure = 2

\* C36: with concurrent Checks on one breaker, the closed_to_open transitions
\* reported to the metrics are as many as the times the breaker went from
\* Closed to Open, once every Check has returned.
C36_TransitionsReportedOnce ==
    (Followed /\ \A p \in Procs : ck[p].pc = "idle") =>
       CircuitBreakerTransitionsCounter[Transition(CircuitClosed, CircuitOpen)] = opened

\* C37: a GetFailureCount or a GetLastFailure call leaves the breaker as it
\* is, an Open breaker past its timeout too; IsOpen and GetState change nothing
\* but the state, and that only from Open to HalfOpen once the timeout has
\* passed; no read changes the failure count or lastFailure.
C37_OnlyStateReadsTransition ==
    [][LET cb == circuitBreakers[TheBreaker]
           after == circuitBreakers'[TheBreaker]
           op == hist'.last
       IN  now' = now =>
              /\ op \in {"GetFailureCount", "GetLastFailure"} => after = cb
              /\ op \in {"IsOpen", "GetState"} =>
                    /\ after = [cb EXCEPT !.state = after.state]
                    /\ after.state # cb.state =>
                          /\ cb.state = CircuitOpen
                          /\ after.state = CircuitHalfOpen
                          /\ now - cb.lastFailure >= cb.timeout]_vars

\* GetFailureCount was called on an Open breaker whose timeout has passed, and
\* the breaker is Open
C37_Witness ==
    LET cb == circuitBreakers[TheBreaker]
    IN  /\ hist.last = "GetFailureCount"
        /\ hist.from = CircuitOpen
        /\ cb.state = CircuitOpen
        /\ cb.timeout = 1
        /\ now - cb.lastFailure >= 2

\* C38: the elapsed time a Check reports is taken after its last dial has
\* returned and covers its dials and sleeps: when the Check returns it is at
\* least the time from the start of the first dial to the return of the last,
\* and at most the time since Check was entered.
C38_ElapsedCoversDials ==
    \A p \in Procs :
       (tm # <<>> /\ ck[p].pc = "finish") =>
          /\ tm[p].responseTime >= tm[p].last - tm[p].first
          /\ tm[p].responseTime <= tm[p].last - tm[p].startTime

\* C39: every entry of the ExporterState has checkCount >= 1 and
\* 0 <= failureCount <= checkCount; its failureCount is the number of failed
\* updates of the key (0 for a new key, one more with each update that writes a
\* failure, unchanged by every other step; it is 0 exactly if no failure was
\* ever written and equals checkCount exactly if no success was), isUp is the
\* flag of the update written last, and lastCheck is lastSuccess if isUp and
\* lastFailure if not.
C39_TargetStateInvariant ==
    /\ [](\A k \in DOMAIN states :
             LET e == heap[states[k]]
             IN  /\ e.CheckCount >= 1
                 /\ 0 <= e.FailureCount /\ e.FailureCount <= e.CheckCount
                 /\ e.FailureCount = 0 <=> e.LastFailure = ZeroTime
                 /\ e.FailureCount = e.CheckCount <=> e.LastSuccess = ZeroTime
                 /\ e.LastCheck = IF e.IsUp THEN e.LastSuccess ELSE e.LastFailure)
    /\ [][\A k \in DOMAIN states' :
             LET failures == IF k \in DOMAIN states THEN heap[states[k]].FailureCount ELSE 0
                 e == heap'[states'[k]]
                 writers == {p \in Procs : /\ us[p].pc = "write" /\ us'[p].pc = "unlock"
                                           /\ Key(us[p].url, us[p].protocol) = k}
             IN  /\ writers = {} =>
                       /\ k \in DOMAIN states
                       /\ e.FailureCount = failures
                       /\ e.IsUp = heap[states[k]].IsUp
                 /\ \A p \in writers :
                       /\ e.FailureCount = failures + (IF us[p].isUp THEN 0 ELSE 1)
                       /\ e.IsUp = us[p].isUp]_vars

\* a key updated three times: a success, then two failures
C39_Witness ==
    /\ \A p \in Procs : us[p].pc = "idle"
    /\ \E k \in DOMAIN states :
          LET e == heap[states[k]]
          IN  /\ e.CheckCount = 3
              /\ e.FailureCount = 2
              /\ ~e.IsUp
              /\ e.LastSuccess # ZeroTime
              /\ e.LastSuccess < e.LastFailure

====
